---- MODULE Spec2Model ----
(***************************************************************************)
(* Model of the token-swap program (program/src): the instruction          *)
(* processor, the fee model, the initialization constraints and the packed *)
(* SwapState record, together with the token ledger the processor drives   *)
(* through transfer / mint_to / burn instructions.                         *)
(*                                                                         *)
(* Word widths are scaled so that a double-width product fits the model    *)
(* checker's integers: a u64 of the program is a 15-bit word here and a    *)
(* u128 a 30-bit word.  The initial pool supply is scaled with them.       *)
(***************************************************************************)
EXTENDS Integers, Sequences, FiniteSets, TLC

\* ------------------------------------------------------------------ bounds
\* Largest ordinary amount a caller submits (besides the named examples).
MaxAmount == 2
\* Number of successful (state-changing) invocations explored.
MaxOps == 3

\* ------------------------------------------------------------- word widths
\* u64::MAX and u128::MAX of the scaled words.
U64_MAX == 32767
U128_MAX == 1073741823

\* processor.rs:22 (1_000_000_000 in the source, scaled with the word width)
INITIAL_SWAP_POOL_AMOUNT == 2

\* state.rs:116 and fees.rs:78
SWAP_STATE_LEN == 274
FEES_LEN == 16
PUBKEY_BYTES == 32

\* ----------------------------------------------------------------- results
\* A Result<T, E> of the program: ok with a value, or an error name.
Ok(v) == [ok |-> TRUE, err |-> "Ok", val |-> v]
Err(e) == [ok |-> FALSE, err |-> e, val |-> 0]

Min(a, b) == IF a < b THEN a ELSE b

\* ----------------------------------------------------------- conversions
\* fn to_u128(val: u64): widening never fails.
to_u128(val) == IF val <= U128_MAX THEN Ok(val) ELSE Err("ConversionFailure")

\* fn to_u64(val: u128): narrowing fails when the value needs more than a u64.
to_u64(val) == IF val <= U64_MAX THEN Ok(val) ELSE Err("ConversionFailure")

\* ------------------------------------------------------------------- keys
\* A Pubkey is named by one byte value k: the key whose 32 bytes all equal k
\* (the keys state.rs builds with Pubkey::new_from_array([k; 32])).
to_bytes(k) == [i \in 1..PUBKEY_BYTES |-> k]
new_from_array(bs) == IF \A i \in 1..Len(bs) : bs[i] = bs[1] THEN bs[1] ELSE bs

RECURSIVE to_le_bytes(_, _)
to_le_bytes(v, n) ==
    IF n = 0 THEN <<>> ELSE <<v % 256>> \o to_le_bytes(v \div 256, n - 1)

RECURSIVE from_le_bytes(_)
from_le_bytes(bs) ==
    IF bs = <<>> THEN 0 ELSE Head(bs) + 256 * from_le_bytes(Tail(bs))

\* --------------------------------------------------------------- fee model
Fees(n, d) == [trade_fee_numerator |-> n, trade_fee_denominator |-> d]

\* Faulty variant: no minimum fee of one token.
calculate_fee_no_minimum(token_amount, fee_numerator, fee_denominator) ==
    IF fee_numerator = 0 \/ token_amount = 0 THEN Ok(0)
    ELSE IF token_amount * fee_numerator > U128_MAX THEN Err("None")
    ELSE IF fee_denominator = 0 THEN Err("None")
    ELSE Ok((token_amount * fee_numerator) \div fee_denominator)

\* Option<u128>: Ok(fee) is Some(fee), Err("None") is None.
calculate_fee(token_amount, fee_numerator, fee_denominator) ==
    IF fee_numerator = 0 \/ token_amount = 0 THEN Ok(0)
    ELSE IF token_amount * fee_numerator > U128_MAX THEN Err("None")
    ELSE IF fee_denominator = 0 THEN Err("None")
    ELSE LET fee == (token_amount * fee_numerator) \div fee_denominator
         IN  IF fee = 0 THEN Ok(1) ELSE Ok(fee)

\* Faulty variant: numerator and denominator passed in the wrong order.
trading_fee_swapped(fees, trading_tokens) ==
    calculate_fee(trading_tokens, fees.trade_fee_denominator,
                  fees.trade_fee_numerator)

trading_fee(fees, trading_tokens) ==
    calculate_fee(trading_tokens, fees.trade_fee_numerator,
                  fees.trade_fee_denominator)

\* Faulty variant: the schedule (0, 0) is rejected like every other schedule
\* whose numerator is not below its denominator.
validate_fraction_strict(numerator, denominator) ==
    IF numerator >= denominator THEN Err("InvalidFee") ELSE Ok(0)

validate_fraction(numerator, denominator) ==
    IF denominator = 0 /\ numerator = 0 THEN Ok(0)
    ELSE IF numerator >= denominator THEN Err("InvalidFee")
    ELSE Ok(0)

Fees_validate(fees) ==
    validate_fraction(fees.trade_fee_numerator, fees.trade_fee_denominator)

\* Faulty variant: the denominator is written first.
Fees_pack_into_slice_swapped(fees) ==
    to_le_bytes(fees.trade_fee_denominator, 8)
        \o to_le_bytes(fees.trade_fee_numerator, 8)

Fees_pack_into_slice(fees) ==
    to_le_bytes(fees.trade_fee_numerator, 8)
        \o to_le_bytes(fees.trade_fee_denominator, 8)

Fees_unpack_from_slice(input) ==
    Ok(Fees(from_le_bytes(SubSeq(input, 1, 8)),
            from_le_bytes(SubSeq(input, 9, 16))))

\* ------------------------------------------------------------- constraints
\* Faulty variant: an empty asset account is accepted.
validate_supply_any(token_a_amount, token_b_amount) ==
    Ok(0)

validate_supply(token_a_amount, token_b_amount) ==
    IF token_a_amount = 0 THEN Err("EmptySupply")
    ELSE IF token_b_amount = 0 THEN Err("EmptySupply")
    ELSE Ok(0)

\* Faulty variant: every schedule is accepted.
validate_fees_any(fees, overflow_checks) ==
    Ok(0)

\* fees.trade_fee_numerator * 3 is a u64 product: with overflow checks the
\* build panics when it exceeds u64::MAX, without them it wraps.
validate_fees(fees, overflow_checks) ==
    LET product == fees.trade_fee_numerator * 3 IN
    IF product > U64_MAX /\ overflow_checks THEN Err("Panic")
    ELSE IF fees.trade_fee_denominator > product % (U64_MAX + 1) THEN Ok(0)
    ELSE Err("InvalidFee")

\* ------------------------------------------------------------- SwapState
SwapState_pack_into_slice(s) ==
    <<IF s.is_initialized THEN 1 ELSE 0>> \o <<s.bump_seed>>
        \o to_bytes(s.token_program_id)
        \o to_bytes(s.token_a) \o to_bytes(s.token_b)
        \o to_bytes(s.pool_mint)
        \o to_bytes(s.token_a_mint) \o to_bytes(s.token_b_mint)
        \o to_bytes(s.token_a_fee_account) \o to_bytes(s.token_b_fee_account)
        \o Fees_pack_into_slice(s.fees)

SwapState_unpack_from_slice(input) ==
    IF input[1] \notin {0, 1} THEN Err("InvalidAccountData")
    ELSE Ok([is_initialized |-> (input[1] = 1),
             bump_seed |-> input[2],
             token_program_id |-> new_from_array(SubSeq(input, 3, 34)),
             token_a |-> new_from_array(SubSeq(input, 35, 66)),
             token_b |-> new_from_array(SubSeq(input, 67, 98)),
             pool_mint |-> new_from_array(SubSeq(input, 99, 130)),
             token_a_mint |-> new_from_array(SubSeq(input, 131, 162)),
             token_b_mint |-> new_from_array(SubSeq(input, 163, 194)),
             token_a_fee_account |-> new_from_array(SubSeq(input, 195, 226)),
             token_b_fee_account |-> new_from_array(SubSeq(input, 227, 258)),
             fees |-> Fees_unpack_from_slice(SubSeq(input, 259, 274)).val])

\* Pack::unpack_unchecked: the length check, then unpack_from_slice.
SwapState_unpack_unchecked(input) ==
    IF Len(input) # SWAP_STATE_LEN THEN Err("InvalidAccountData")
    ELSE SwapState_unpack_from_slice(input)

\* Faulty variant: the is_initialized check is left out.
SwapState_unpack_any(input) ==
    SwapState_unpack_unchecked(input)

\* Pack::unpack: unpack_unchecked, then the is_initialized check.
SwapState_unpack(input) ==
    LET value == SwapState_unpack_unchecked(input) IN
    IF ~value.ok THEN value
    ELSE IF ~value.val.is_initialized THEN Err("UninitializedAccount")
    ELSE value

\* Pack::pack: the destination must be exactly LEN bytes long.
SwapState_pack(src, dst) ==
    IF Len(dst) # SWAP_STATE_LEN THEN Err("InvalidAccountData")
    ELSE Ok(SwapState_pack_into_slice(src))

\* ================================================================ accounts
\* COption::None / Option::None of a key.
None == 0
\* An address no account of the model has.
UNKNOWN_KEY == 9

SWAP_PROGRAM == 1
TOKEN_PROGRAM == 2
SYSTEM_PROGRAM == 3

\* The two swap accounts and, per swap account k, its linked accounts.
SwapInfos == {10, 20}
authority_of(k) == k + 1
token_a_of(k) == k + 2
token_b_of(k) == k + 3
pool_mint_of(k) == k + 4
fee_a_of(k) == k + 5
fee_b_of(k) == k + 6
pool_dest_of(k) == k + 7
bump_of(k) == 255 - (k \div 10)

\* The caller: a wallet that signs every transaction, and its token accounts.
USER == 40
USER_A == 41
USER_B == 42
\* Two more token accounts of the same wallet.
OTHER_A == 43
OTHER_B == 44
FEE_OWNER == 45
MINT_A == 50
MINT_B == 51
\* Accounts that Initialize must refuse: a token-A account with a delegate, a
\* token-B account with a close authority, a mint with a freeze authority and
\* a mint that has already issued tokens; all four belong to the authority of
\* swap account 10.
DELEGATED_A == 60
CLOSABLE_B == 61
FROZEN_MINT == 62
ISSUED_MINT == 63
TxSigners == {USER}

TokenAccount(mint, owner) ==
    [kind |-> "account", program |-> TOKEN_PROGRAM, mint |-> mint,
     owner |-> owner, delegate |-> None, close_authority |-> None,
     mint_authority |-> None, freeze_authority |-> None]
Mint(mint_authority) ==
    [kind |-> "mint", program |-> TOKEN_PROGRAM, mint |-> None,
     owner |-> None, delegate |-> None, close_authority |-> None,
     mint_authority |-> mint_authority, freeze_authority |-> None]
Plain(program) ==
    [kind |-> "none", program |-> program, mint |-> None,
     owner |-> None, delegate |-> None, close_authority |-> None,
     mint_authority |-> None, freeze_authority |-> None]

TokenKeys ==
    {USER_A, USER_B, OTHER_A, OTHER_B, DELEGATED_A, CLOSABLE_B} \cup
    UNION {{token_a_of(k), token_b_of(k), fee_a_of(k), fee_b_of(k),
            pool_dest_of(k)} : k \in SwapInfos}
MintKeys == {pool_mint_of(k) : k \in SwapInfos} \cup {FROZEN_MINT, ISSUED_MINT}
Keys ==
    TokenKeys \cup MintKeys \cup SwapInfos
        \cup {authority_of(k) : k \in SwapInfos}
        \cup {USER, FEE_OWNER, MINT_A, MINT_B, SWAP_PROGRAM, TOKEN_PROGRAM}

\* The part of every account that no instruction of the ledger changes.
AccountOf(key) ==
    IF key = USER_A THEN TokenAccount(MINT_A, USER)
    ELSE IF key = USER_B THEN TokenAccount(MINT_B, USER)
    ELSE IF key = OTHER_A THEN TokenAccount(MINT_A, USER)
    ELSE IF key = OTHER_B THEN TokenAccount(MINT_B, USER)
    ELSE IF key = DELEGATED_A
        THEN [TokenAccount(MINT_A, authority_of(10)) EXCEPT !.delegate = USER]
    ELSE IF key = CLOSABLE_B
        THEN [TokenAccount(MINT_B, authority_of(10))
                 EXCEPT !.close_authority = USER]
    ELSE IF key = FROZEN_MINT
        THEN [Mint(authority_of(10)) EXCEPT !.freeze_authority = USER]
    ELSE IF key = ISSUED_MINT THEN Mint(authority_of(10))
    ELSE IF key \in SwapInfos THEN Plain(SWAP_PROGRAM)
    ELSE IF \E k \in SwapInfos : key = token_a_of(k)
        THEN TokenAccount(MINT_A, key - 1)
    ELSE IF \E k \in SwapInfos : key = token_b_of(k)
        THEN TokenAccount(MINT_B, key - 2)
    ELSE IF \E k \in SwapInfos : key = pool_mint_of(k) THEN Mint(key - 3)
    ELSE IF \E k \in SwapInfos : key = fee_a_of(k)
        THEN TokenAccount(MINT_A, FEE_OWNER)
    ELSE IF \E k \in SwapInfos : key = fee_b_of(k)
        THEN TokenAccount(MINT_B, FEE_OWNER)
    ELSE IF \E k \in SwapInfos : key = pool_dest_of(k)
        THEN TokenAccount(key - 3, USER)
    ELSE Plain(SYSTEM_PROGRAM)

AccountTable == [key \in Keys \cup {None, UNKNOWN_KEY} |-> AccountOf(key)]
Account(key) == AccountTable[key]

\* Pubkey::find_program_address(&[swap_info], program_id)
find_program_address(swap_info, program_id) ==
    IF swap_info \in SwapInfos /\ program_id = SWAP_PROGRAM
    THEN [key |-> authority_of(swap_info), bump_seed |-> bump_of(swap_info)]
    ELSE [key |-> UNKNOWN_KEY, bump_seed |-> 255]

\* Processor::authority_id: Pubkey::create_program_address
authority_id(program_id, swap_info, bump_seed) ==
    IF swap_info \in SwapInfos /\ program_id = SWAP_PROGRAM
       /\ bump_seed = bump_of(swap_info)
    THEN Ok(authority_of(swap_info))
    ELSE Err("InvalidProgramAddress")

\* ================================================================== ledger
\* The instructions the processor issues to the token program.  balance maps
\* a token account to its amount and a mint to its supply.
Command(kind, token_program, source, destination, mint, authority, amount, pda) ==
    [kind |-> kind, token_program |-> token_program, source |-> source,
     destination |-> destination, mint |-> mint, authority |-> authority,
     amount |-> amount, pda |-> pda]

\* The address invoke_signed signs for with the seeds [swap_info, bump_seed].
SignerOf(swap_info, bump_seed) ==
    LET a == authority_id(SWAP_PROGRAM, swap_info, bump_seed)
    IN  IF a.ok THEN a.val ELSE None

Signed(c, key) == key \in TxSigners \/ (c.pda # None /\ key = c.pda)

ApplyTransfer(balance, c) ==
    LET src == Account(c.source)
        dst == Account(c.destination)
    IN  IF src.kind # "account" \/ dst.kind # "account"
            THEN Err("InvalidAccountData")
        ELSE IF balance[c.source] < c.amount THEN Err("InsufficientFunds")
        ELSE IF src.mint # dst.mint THEN Err("MintMismatch")
        ELSE IF src.owner # c.authority THEN Err("OwnerMismatch")
        ELSE IF ~Signed(c, c.authority) THEN Err("MissingRequiredSignature")
        ELSE IF c.source = c.destination THEN Ok(balance)
        ELSE IF balance[c.destination] + c.amount > U64_MAX THEN Err("Overflow")
        ELSE Ok([balance EXCEPT ![c.source] = @ - c.amount,
                                ![c.destination] = @ + c.amount])

ApplyMintTo(balance, c) ==
    LET mint == Account(c.mint)
        dst == Account(c.destination)
    IN  IF mint.kind # "mint" \/ dst.kind # "account"
            THEN Err("InvalidAccountData")
        ELSE IF dst.mint # c.mint THEN Err("MintMismatch")
        ELSE IF mint.mint_authority # c.authority THEN Err("OwnerMismatch")
        ELSE IF ~Signed(c, c.authority) THEN Err("MissingRequiredSignature")
        ELSE IF balance[c.mint] + c.amount > U64_MAX
                \/ balance[c.destination] + c.amount > U64_MAX
            THEN Err("Overflow")
        ELSE Ok([balance EXCEPT ![c.mint] = @ + c.amount,
                                ![c.destination] = @ + c.amount])

ApplyBurn(balance, c) ==
    LET mint == Account(c.mint)
        src == Account(c.source)
    IN  IF mint.kind # "mint" \/ src.kind # "account"
            THEN Err("InvalidAccountData")
        ELSE IF balance[c.source] < c.amount THEN Err("InsufficientFunds")
        ELSE IF src.mint # c.mint THEN Err("MintMismatch")
        ELSE IF src.owner # c.authority THEN Err("OwnerMismatch")
        ELSE IF ~Signed(c, c.authority) THEN Err("MissingRequiredSignature")
        ELSE Ok([balance EXCEPT ![c.mint] = @ - c.amount,
                                ![c.source] = @ - c.amount])

\* invoke_signed of one instruction: only the token program executes it.
Invoke(balance, c) ==
    IF c.token_program # TOKEN_PROGRAM THEN Err("IncorrectProgramId")
    ELSE IF c.kind = "transfer" THEN ApplyTransfer(balance, c)
    ELSE IF c.kind = "mint_to" THEN ApplyMintTo(balance, c)
    ELSE ApplyBurn(balance, c)

\* Processor::token_transfer / token_mint_to / token_burn build the instruction.
token_transfer(swap_info, token_program, source, destination, authority, bump_seed, amount) ==
    Command("transfer", token_program, source, destination, None, authority,
            amount, SignerOf(swap_info, bump_seed))

token_mint_to(swap_info, token_program, mint, destination, authority, bump_seed, amount) ==
    Command("mint_to", token_program, None, destination, mint, authority,
            amount, SignerOf(swap_info, bump_seed))

token_burn(token_program, burn_account, mint, authority, amount) ==
    Command("burn", token_program, burn_account, None, mint, authority,
            amount, None)

\* =============================================================== processor
\* The data of an account as the processor borrows it: a swap account holds
\* the bytes of swap_data, every other account is no SwapState buffer.
DataOf(swap_data, key) ==
    IF key \in DOMAIN swap_data THEN swap_data[key] ELSE <<>>

\* What one invocation did: its result ("Ok" or the error), who raised the
\* error (the processor itself or the token program executing an issued
\* instruction), the instructions issued in order (the rejected one included),
\* and the balances and swap data it leaves when it succeeds.
Outcome(result, raised_by, issued, balance, swap_data) ==
    [result |-> result, raised_by |-> raised_by, issued |-> issued,
     balance |-> balance, swap_data |-> swap_data]

Reject(e, balance, swap_data) ==
    Outcome(e, "processor", <<>>, balance, swap_data)

\* Faulty variant: a handler that finishes by writing a default record over
\* the swap account.
RECURSIVE RunSteps_rewrites(_, _, _, _, _)
RunSteps_rewrites(steps, i, issued, balance, swap_data) ==
    IF i > Len(steps)
    THEN Outcome("Ok", "none", issued, balance,
                 [k \in DOMAIN swap_data |->
                     [j \in 1..Len(swap_data[k]) |-> 0]])
    ELSE IF ~steps[i].ok
        THEN Outcome(steps[i].err, "processor", issued, balance, swap_data)
    ELSE LET r == Invoke(balance, steps[i].val) IN
         IF ~r.ok
         THEN Outcome(r.err, "ledger", Append(issued, steps[i].val),
                      balance, swap_data)
         ELSE RunSteps_rewrites(steps, i + 1, Append(issued, steps[i].val),
                                r.val, swap_data)

\* The calls token_transfer(..)?, token_mint_to(..)?, token_burn(..)? in
\* program order.  steps[i] is Ok(instruction) or the error raised while the
\* arguments of the i-th call were evaluated.
RECURSIVE RunSteps(_, _, _, _, _)
RunSteps(steps, i, issued, balance, swap_data) ==
    IF i > Len(steps) THEN Outcome("Ok", "none", issued, balance, swap_data)
    ELSE IF ~steps[i].ok
        THEN Outcome(steps[i].err, "processor", issued, balance, swap_data)
    ELSE LET r == Invoke(balance, steps[i].val) IN
         IF ~r.ok
         THEN Outcome(r.err, "ledger", Append(issued, steps[i].val),
                      balance, swap_data)
         ELSE RunSteps(steps, i + 1, Append(issued, steps[i].val), r.val,
                       swap_data)

\* Ok(instruction) when the amount narrows, the narrowing error otherwise.
WithAmount(amount, cmd) == IF amount.ok THEN Ok(cmd) ELSE amount

\* Processor::unpack_token_account / unpack_mint
unpack_token_account(key, token_program_id, balance) ==
    IF Account(key).program # token_program_id
        THEN Err("IncorrectTokenProgramId")
    ELSE IF Account(key).kind # "account" THEN Err("ExpectedAccount")
    ELSE Ok([mint |-> Account(key).mint, owner |-> Account(key).owner,
             amount |-> balance[key], delegate |-> Account(key).delegate,
             close_authority |-> Account(key).close_authority])

unpack_mint(key, token_program_id, balance) ==
    IF Account(key).program # token_program_id
        THEN Err("IncorrectTokenProgramId")
    ELSE IF Account(key).kind # "mint" THEN Err("ExpectedMint")
    ELSE Ok([supply |-> balance[key],
             mint_authority |-> Account(key).mint_authority,
             freeze_authority |-> Account(key).freeze_authority])

\* u128 subtraction and addition: a panic with overflow checks, a wrap without.
sub_u128(a, b, overflow_checks) ==
    IF a >= b THEN Ok(a - b)
    ELSE IF overflow_checks THEN Err("Panic")
    ELSE Ok(a - b + U128_MAX + 1)

\* ---------------------------------------------------------------- the swap
\* Faulty variant: the quotient is rounded up.
swap_amount_out_ceil(swap_token_source_amount, swap_token_dest_amount, amount_in) ==
    swap_token_dest_amount
        - (swap_token_source_amount * swap_token_dest_amount
             + swap_token_source_amount + amount_in - 1)
              \div (swap_token_source_amount + amount_in)

\* amount_out = y - x * y / (x + amount_in), processor.rs:600-602
swap_amount_out(swap_token_source_amount, swap_token_dest_amount, amount_in) ==
    swap_token_dest_amount
        - (swap_token_source_amount * swap_token_dest_amount)
              \div (swap_token_source_amount + amount_in)

\* "if amount_out < to_u128(minimum_amount_out)?", processor.rs:603-605
\* (faulty variant: the comparison is not strict)
exceeded_slippage_or_equal(amount_out, minimum_amount_out) ==
    amount_out <= minimum_amount_out
exceeded_slippage(amount_out, minimum_amount_out) ==
    amount_out < minimum_amount_out

\* Faulty variant: amount_out is narrowed to a byte-sized word, after the
\* first transfer has been issued.
swap_steps_narrow_late(swap_info, accounts, bump_seed, amount_in, amount_out, trading_fees) ==
    << WithAmount(to_u64(amount_in),
           token_transfer(swap_info, accounts[9], accounts[4], accounts[5],
                          accounts[3], bump_seed, amount_in)),
       WithAmount(IF amount_out <= 3 THEN Ok(amount_out)
                  ELSE Err("ConversionFailure"),
           token_transfer(swap_info, accounts[9], accounts[6], accounts[7],
                          accounts[2], bump_seed, amount_out)),
       WithAmount(to_u64(trading_fees),
           token_transfer(swap_info, accounts[9], accounts[4], accounts[8],
                          accounts[3], bump_seed, trading_fees)) >>

\* Faulty variant: the fee is transferred before the caller is paid.
swap_steps_fee_first(swap_info, accounts, bump_seed, amount_in, amount_out, trading_fees) ==
    << WithAmount(to_u64(amount_in),
           token_transfer(swap_info, accounts[9], accounts[4], accounts[5],
                          accounts[3], bump_seed, amount_in)),
       WithAmount(to_u64(trading_fees),
           token_transfer(swap_info, accounts[9], accounts[4], accounts[8],
                          accounts[3], bump_seed, trading_fees)),
       WithAmount(to_u64(amount_out),
           token_transfer(swap_info, accounts[9], accounts[6], accounts[7],
                          accounts[2], bump_seed, amount_out)) >>

\* Faulty variant: the first transfer takes the whole amount in, fee included.
swap_steps_gross_input(swap_info, accounts, bump_seed, amount_in, amount_out, trading_fees) ==
    << WithAmount(to_u64(amount_in + trading_fees),
           token_transfer(swap_info, accounts[9], accounts[4], accounts[5],
                          accounts[3], bump_seed, amount_in + trading_fees)),
       WithAmount(to_u64(amount_out),
           token_transfer(swap_info, accounts[9], accounts[6], accounts[7],
                          accounts[2], bump_seed, amount_out)),
       WithAmount(to_u64(trading_fees),
           token_transfer(swap_info, accounts[9], accounts[4], accounts[8],
                          accounts[3], bump_seed, trading_fees)) >>

\* The three transfers of a swap, processor.rs:607-638
swap_steps(swap_info, accounts, bump_seed, amount_in, amount_out, trading_fees) ==
    << WithAmount(to_u64(amount_in),
           token_transfer(swap_info, accounts[9], accounts[4], accounts[5],
                          accounts[3], bump_seed, amount_in)),
       WithAmount(to_u64(amount_out),
           token_transfer(swap_info, accounts[9], accounts[6], accounts[7],
                          accounts[2], bump_seed, amount_out)),
       WithAmount(to_u64(trading_fees),
           token_transfer(swap_info, accounts[9], accounts[4], accounts[8],
                          accounts[3], bump_seed, trading_fees)) >>

\* "source_info should be user's not program one", processor.rs:560-567
\* (faulty variant: the caller's account is never compared)
same_account_never(pool_account, user_account) == FALSE
same_account(pool_account, user_account) == pool_account = user_account

\* The fee account is one of the two recorded ones, processor.rs:568-572
\* (faulty variant: every account is taken as a fee account)
is_fee_account_any(swap_state, fee_account) == TRUE
is_fee_account(swap_state, fee_account) ==
    \/ fee_account = swap_state.token_a_fee_account
    \/ fee_account = swap_state.token_b_fee_account

\* accounts: 1 swap_info, 2 authority, 3 user_transfer_authority, 4 source,
\* 5 swap_source, 6 swap_destination, 7 destination, 8 fee_account,
\* 9 token_program.
process_swap(program_id, amount_in, minimum_amount_out, accounts, overflow_checks, balance, swap_data) ==
    LET swap_info == accounts[1]
        unpacked == SwapState_unpack(DataOf(swap_data, swap_info))
        swap_state == unpacked.val
        authority == authority_id(program_id, swap_info, swap_state.bump_seed)
        source_account ==
            unpack_token_account(accounts[5], swap_state.token_program_id, balance)
        dest_account ==
            unpack_token_account(accounts[6], swap_state.token_program_id, balance)
        fee_amount ==
            unpack_token_account(accounts[8], swap_state.token_program_id, balance)
        fee_option == trading_fee(swap_state.fees, amount_in)
        trading_fees == IF fee_option.ok THEN fee_option.val ELSE 0
        net == sub_u128(amount_in, trading_fees, overflow_checks)
        x == source_account.val.amount
        y == dest_account.val.amount
        amount_out == swap_amount_out(x, y, net.val)
        R(e) == Reject(e, balance, swap_data)
    IN
    IF Account(swap_info).program # program_id THEN R("IncorrectProgramId")
    ELSE IF ~unpacked.ok THEN R(unpacked.err)
    ELSE IF ~authority.ok THEN R(authority.err)
    ELSE IF accounts[2] # authority.val THEN R("InvalidProgramAddress")
    ELSE IF ~(accounts[5] = swap_state.token_a \/ accounts[5] = swap_state.token_b)
        THEN R("IncorrectSwapAccount")
    ELSE IF ~(accounts[6] = swap_state.token_a \/ accounts[6] = swap_state.token_b)
        THEN R("IncorrectSwapAccount")
    ELSE IF accounts[5] = accounts[6] THEN R("InvalidInput")
    ELSE IF same_account(accounts[5], accounts[4]) THEN R("InvalidInput")
    ELSE IF same_account(accounts[6], accounts[7]) THEN R("InvalidInput")
    ELSE IF ~is_fee_account(swap_state, accounts[8])
        THEN R("IncorrectFeeAccount")
    ELSE IF accounts[9] # swap_state.token_program_id
        THEN R("IncorrectTokenProgramId")
    ELSE IF ~source_account.ok THEN R(source_account.err)
    ELSE IF ~dest_account.ok THEN R(dest_account.err)
    ELSE IF ~fee_amount.ok THEN R(fee_amount.err)
    ELSE IF fee_amount.val.mint # source_account.val.mint
        THEN R("IncorrectFeeAccount")
    ELSE IF ~net.ok THEN R(net.err)
    ELSE IF x + net.val = 0 THEN R("DivideByZero")
    ELSE IF exceeded_slippage(amount_out, minimum_amount_out)
        THEN R("ExceededSlippage")
    ELSE RunSteps(swap_steps(swap_info, accounts, swap_state.bump_seed,
                             net.val, amount_out, trading_fees),
                  1, <<>>, balance, swap_data)

\* ------------------------------------------------- deposit and withdrawal
\* Faulty variant: the two asset accounts are not compared with the record.
check_accounts_any_asset_account(swap_state, program_id, swap_info, authority_info, token_a_info, token_b_info, pool_mint_info, token_program_info, user_token_a_info, user_token_b_info, token_a_fee_account_info, token_b_fee_account_info) ==
    LET authority == authority_id(program_id, swap_info, swap_state.bump_seed) IN
    IF Account(swap_info).program # program_id THEN Err("IncorrectProgramId")
    ELSE IF ~authority.ok THEN authority
    ELSE IF authority_info # authority.val THEN Err("InvalidProgramAddress")
    ELSE IF pool_mint_info # swap_state.pool_mint THEN Err("IncorrectPoolMint")
    ELSE IF token_program_info # swap_state.token_program_id
        THEN Err("IncorrectTokenProgramId")
    ELSE IF user_token_a_info # None /\ token_a_info = user_token_a_info
        THEN Err("InvalidInput")
    ELSE IF user_token_b_info # None /\ token_b_info = user_token_b_info
        THEN Err("InvalidInput")
    ELSE Ok(0)

\* Faulty variant: the caller's accounts are not compared with the pool's own.
check_accounts_own_accounts(swap_state, program_id, swap_info, authority_info, token_a_info, token_b_info, pool_mint_info, token_program_info, user_token_a_info, user_token_b_info, token_a_fee_account_info, token_b_fee_account_info) ==
    LET authority == authority_id(program_id, swap_info, swap_state.bump_seed) IN
    IF Account(swap_info).program # program_id THEN Err("IncorrectProgramId")
    ELSE IF ~authority.ok THEN authority
    ELSE IF authority_info # authority.val THEN Err("InvalidProgramAddress")
    ELSE IF token_a_info # swap_state.token_a THEN Err("IncorrectSwapAccount")
    ELSE IF token_b_info # swap_state.token_b THEN Err("IncorrectSwapAccount")
    ELSE IF pool_mint_info # swap_state.pool_mint THEN Err("IncorrectPoolMint")
    ELSE IF token_program_info # swap_state.token_program_id
        THEN Err("IncorrectTokenProgramId")
    ELSE Ok(0)

\* Processor::check_accounts; an Option argument that is None is passed as None.
check_accounts(swap_state, program_id, swap_info, authority_info, token_a_info, token_b_info, pool_mint_info, token_program_info, user_token_a_info, user_token_b_info, token_a_fee_account_info, token_b_fee_account_info) ==
    LET authority == authority_id(program_id, swap_info, swap_state.bump_seed) IN
    IF Account(swap_info).program # program_id THEN Err("IncorrectProgramId")
    ELSE IF ~authority.ok THEN authority
    ELSE IF authority_info # authority.val THEN Err("InvalidProgramAddress")
    ELSE IF token_a_info # swap_state.token_a THEN Err("IncorrectSwapAccount")
    ELSE IF token_b_info # swap_state.token_b THEN Err("IncorrectSwapAccount")
    ELSE IF pool_mint_info # swap_state.pool_mint THEN Err("IncorrectPoolMint")
    ELSE IF token_program_info # swap_state.token_program_id
        THEN Err("IncorrectTokenProgramId")
    ELSE IF user_token_a_info # None /\ token_a_info = user_token_a_info
        THEN Err("InvalidInput")
    ELSE IF user_token_b_info # None /\ token_b_info = user_token_b_info
        THEN Err("InvalidInput")
    ELSE IF token_a_fee_account_info # None
            /\ token_a_fee_account_info # swap_state.token_a_fee_account
        THEN Err("IncorrectFeeAccount")
    ELSE IF token_b_fee_account_info # None
            /\ token_b_fee_account_info # swap_state.token_b_fee_account
        THEN Err("IncorrectFeeAccount")
    ELSE Ok(0)

\* The pool token amount and the supply a deposit computes with,
\* processor.rs:361-366 (faulty variant: the caller's amount is kept when the
\* supply is 0).
deposit_amounts_keeps_request(current_pool_mint_supply, pool_token_amount) ==
    IF current_pool_mint_supply > 0
    THEN << to_u128(pool_token_amount), current_pool_mint_supply >>
    ELSE << to_u128(pool_token_amount), INITIAL_SWAP_POOL_AMOUNT >>
deposit_amounts(current_pool_mint_supply, pool_token_amount) ==
    IF current_pool_mint_supply > 0
    THEN << to_u128(pool_token_amount), current_pool_mint_supply >>
    ELSE << Ok(INITIAL_SWAP_POOL_AMOUNT), INITIAL_SWAP_POOL_AMOUNT >>

\* token_amount * pool_token_amount / pool_mint_supply in u128,
\* processor.rs:370-371 and 466-467 (faulty variant: rounded up).
proportional_amount_ceil(token_amount, pool_token_amount, pool_mint_supply) ==
    (token_amount * pool_token_amount + pool_mint_supply - 1)
        \div pool_mint_supply
proportional_amount(token_amount, pool_token_amount, pool_mint_supply) ==
    (token_amount * pool_token_amount) \div pool_mint_supply

\* Faulty variant: the pool tokens are minted before the assets are taken.
deposit_steps_mint_first(swap_info, accounts, bump_seed, token_a_amount, token_b_amount, pool_token_amount) ==
    << Ok(token_mint_to(swap_info, accounts[10], accounts[8], accounts[9],
                        accounts[2], bump_seed, pool_token_amount)),
       Ok(token_transfer(swap_info, accounts[10], accounts[4], accounts[6],
                         accounts[3], bump_seed, token_a_amount)),
       Ok(token_transfer(swap_info, accounts[10], accounts[5], accounts[7],
                         accounts[3], bump_seed, token_b_amount)) >>

\* The two transfers and the mint of a deposit, processor.rs:390-416
deposit_steps(swap_info, accounts, bump_seed, token_a_amount, token_b_amount, pool_token_amount) ==
    << Ok(token_transfer(swap_info, accounts[10], accounts[4], accounts[6],
                         accounts[3], bump_seed, token_a_amount)),
       Ok(token_transfer(swap_info, accounts[10], accounts[5], accounts[7],
                         accounts[3], bump_seed, token_b_amount)),
       Ok(token_mint_to(swap_info, accounts[10], accounts[8], accounts[9],
                        accounts[2], bump_seed, pool_token_amount)) >>

\* accounts: 1 swap_info, 2 authority, 3 user_transfer_authority, 4 source_a,
\* 5 source_b, 6 token_a, 7 token_b, 8 pool_mint, 9 dest, 10 token_program.
process_deposit_tokens(program_id, pool_token_amount_in, maximum_token_a_amount, maximum_token_b_amount, accounts, balance, swap_data) ==
    LET swap_info == accounts[1]
        unpacked == SwapState_unpack(DataOf(swap_data, swap_info))
        swap_state == unpacked.val
        checked == check_accounts(swap_state, program_id, swap_info, accounts[2],
                                  accounts[6], accounts[7], accounts[8],
                                  accounts[10], accounts[4], accounts[5],
                                  None, None)
        token_a == unpack_token_account(accounts[6], swap_state.token_program_id,
                                        balance)
        token_b == unpack_token_account(accounts[7], swap_state.token_program_id,
                                        balance)
        pool_mint == unpack_mint(accounts[8], swap_state.token_program_id, balance)
        current_pool_mint_supply == pool_mint.val.supply
        amounts == deposit_amounts(current_pool_mint_supply, pool_token_amount_in)
        pool_token_amount == amounts[1].val
        pool_mint_supply == amounts[2]
        token_a_amount ==
            to_u64(proportional_amount(token_a.val.amount, pool_token_amount,
                                       pool_mint_supply))
        token_b_amount ==
            to_u64(proportional_amount(token_b.val.amount, pool_token_amount,
                                       pool_mint_supply))
        pool_token_amount_u64 == to_u64(pool_token_amount)
        R(e) == Reject(e, balance, swap_data)
    IN
    IF ~unpacked.ok THEN R(unpacked.err)
    ELSE IF ~checked.ok THEN R(checked.err)
    ELSE IF ~token_a.ok THEN R(token_a.err)
    ELSE IF ~token_b.ok THEN R(token_b.err)
    ELSE IF ~pool_mint.ok THEN R(pool_mint.err)
    ELSE IF ~amounts[1].ok THEN R(amounts[1].err)
    ELSE IF ~token_a_amount.ok THEN R(token_a_amount.err)
    ELSE IF token_a_amount.val > maximum_token_a_amount THEN R("ExceededSlippage")
    ELSE IF token_a_amount.val = 0 THEN R("ZeroTradingTokens")
    ELSE IF ~token_b_amount.ok THEN R(token_b_amount.err)
    ELSE IF token_b_amount.val > maximum_token_b_amount THEN R("ExceededSlippage")
    ELSE IF token_b_amount.val = 0 THEN R("ZeroTradingTokens")
    ELSE IF ~pool_token_amount_u64.ok THEN R(pool_token_amount_u64.err)
    ELSE RunSteps(deposit_steps(swap_info, accounts, swap_state.bump_seed,
                                token_a_amount.val, token_b_amount.val,
                                pool_token_amount_u64.val),
                  1, <<>>, balance, swap_data)

\* "token_amount == 0 && token.amount != 0", processor.rs:474-476, 482-484
\* (faulty variant: an empty side is not exempted)
zero_trading_tokens_strict(token_amount, held) == token_amount = 0
zero_trading_tokens(token_amount, held) == token_amount = 0 /\ held # 0

\* Faulty variant: the assets are paid out before the pool tokens are burnt.
withdraw_steps_burn_last(swap_info, accounts, bump_seed, token_a_amount, token_b_amount, pool_token_amount) ==
    (IF token_a_amount > 0
        THEN << Ok(token_transfer(swap_info, accounts[10], accounts[6],
                                  accounts[8], accounts[2], bump_seed,
                                  token_a_amount)) >>
        ELSE <<>>)
    \o (IF token_b_amount > 0
        THEN << Ok(token_transfer(swap_info, accounts[10], accounts[7],
                                  accounts[9], accounts[2], bump_seed,
                                  token_b_amount)) >>
        ELSE <<>>)
    \o << WithAmount(to_u64(pool_token_amount),
              token_burn(accounts[10], accounts[5], accounts[4], accounts[3],
                         pool_token_amount)) >>

\* Faulty variant: the withdrawal pays one token A more than computed.
withdraw_steps_one_more(swap_info, accounts, bump_seed, token_a_amount, token_b_amount, pool_token_amount) ==
    << WithAmount(to_u64(pool_token_amount),
           token_burn(accounts[10], accounts[5], accounts[4], accounts[3],
                      pool_token_amount)),
       Ok(token_transfer(swap_info, accounts[10], accounts[6], accounts[8],
                         accounts[2], bump_seed, token_a_amount + 1)) >>
    \o (IF token_b_amount > 0
        THEN << Ok(token_transfer(swap_info, accounts[10], accounts[7],
                                  accounts[9], accounts[2], bump_seed,
                                  token_b_amount)) >>
        ELSE <<>>)

\* The burn and the conditional transfers of a withdrawal, processor.rs:486-515
withdraw_steps(swap_info, accounts, bump_seed, token_a_amount, token_b_amount, pool_token_amount) ==
    << WithAmount(to_u64(pool_token_amount),
           token_burn(accounts[10], accounts[5], accounts[4], accounts[3],
                      pool_token_amount)) >>
    \o (IF token_a_amount > 0
        THEN << Ok(token_transfer(swap_info, accounts[10], accounts[6],
                                  accounts[8], accounts[2], bump_seed,
                                  token_a_amount)) >>
        ELSE <<>>)
    \o (IF token_b_amount > 0
        THEN << Ok(token_transfer(swap_info, accounts[10], accounts[7],
                                  accounts[9], accounts[2], bump_seed,
                                  token_b_amount)) >>
        ELSE <<>>)

\* accounts: 1 swap_info, 2 authority, 3 user_transfer_authority, 4 pool_mint,
\* 5 source, 6 token_a, 7 token_b, 8 dest_token_a, 9 dest_token_b,
\* 10 token_program.
process_withdraw_tokens(program_id, pool_token_amount, minimum_token_a_amount, minimum_token_b_amount, accounts, balance, swap_data) ==
    LET swap_info == accounts[1]
        unpacked == SwapState_unpack(DataOf(swap_data, swap_info))
        swap_state == unpacked.val
        checked == check_accounts(swap_state, program_id, swap_info, accounts[2],
                                  accounts[6], accounts[7], accounts[4],
                                  accounts[10], accounts[8], accounts[9],
                                  None, None)
        token_a == unpack_token_account(accounts[6], swap_state.token_program_id,
                                        balance)
        token_b == unpack_token_account(accounts[7], swap_state.token_program_id,
                                        balance)
        pool_mint == unpack_mint(accounts[4], swap_state.token_program_id, balance)
        pool_mint_supply == pool_mint.val.supply
        wide_a == to_u64(proportional_amount(token_a.val.amount,
                                             pool_token_amount,
                                             pool_mint_supply))
        wide_b == to_u64(proportional_amount(token_b.val.amount,
                                             pool_token_amount,
                                             pool_mint_supply))
        token_a_amount == Min(token_a.val.amount, wide_a.val)
        token_b_amount == Min(token_b.val.amount, wide_b.val)
        R(e) == Reject(e, balance, swap_data)
    IN
    IF ~unpacked.ok THEN R(unpacked.err)
    ELSE IF ~checked.ok THEN R(checked.err)
    ELSE IF ~token_a.ok THEN R(token_a.err)
    ELSE IF ~token_b.ok THEN R(token_b.err)
    ELSE IF ~pool_mint.ok THEN R(pool_mint.err)
    ELSE IF pool_mint_supply = 0 THEN R("DivideByZero")
    ELSE IF ~wide_a.ok THEN R(wide_a.err)
    ELSE IF token_a_amount < minimum_token_a_amount THEN R("ExceededSlippage")
    ELSE IF zero_trading_tokens(token_a_amount, token_a.val.amount)
        THEN R("ZeroTradingTokens")
    ELSE IF ~wide_b.ok THEN R(wide_b.err)
    ELSE IF token_b_amount < minimum_token_b_amount THEN R("ExceededSlippage")
    ELSE IF zero_trading_tokens(token_b_amount, token_b.val.amount)
        THEN R("ZeroTradingTokens")
    ELSE RunSteps(withdraw_steps(swap_info, accounts, swap_state.bump_seed,
                                 token_a_amount, token_b_amount,
                                 pool_token_amount),
                  1, <<>>, balance, swap_data)

\* ------------------------------------------------------------- initialize
\* Faulty variant: the in-use check never fires.
already_in_use_never(data) == FALSE

\* "check the swap_info already in use", processor.rs:217-223
already_in_use(data) ==
    LET swap == SwapState_unpack(data) IN
    IF swap.ok THEN swap.val.is_initialized ELSE FALSE

\* Faulty variant: the initial supply is minted a second time.
initialize_steps_twice(swap_info, accounts, bump_seed, initial_amount) ==
    << WithAmount(to_u64(initial_amount),
           token_mint_to(swap_info, accounts[9], accounts[5], accounts[8],
                         accounts[2], bump_seed, initial_amount)),
       WithAmount(to_u64(initial_amount),
           token_mint_to(swap_info, accounts[9], accounts[5], accounts[8],
                         accounts[2], bump_seed, initial_amount)) >>

\* The mint of the initial supply, processor.rs:295-303
initialize_steps(swap_info, accounts, bump_seed, initial_amount) ==
    << WithAmount(to_u64(initial_amount),
           token_mint_to(swap_info, accounts[9], accounts[5], accounts[8],
                         accounts[2], bump_seed, initial_amount)) >>

\* The record written at processor.rs:305-317
new_swap_state(accounts, bump_seed, token_a_mint, token_b_mint, fees) ==
    [is_initialized |-> TRUE,
     bump_seed |-> bump_seed,
     token_program_id |-> accounts[9],
     token_a |-> accounts[3],
     token_b |-> accounts[4],
     pool_mint |-> accounts[5],
     token_a_mint |-> token_a_mint,
     token_b_mint |-> token_b_mint,
     token_a_fee_account |-> accounts[6],
     token_b_fee_account |-> accounts[7],
     fees |-> fees]

\* The mint, then SwapState::pack into the swap account, processor.rs:293-319
initialize_commit(swap_info, accounts, bump_seed, swap_state, balance, swap_data) ==
    LET minted == RunSteps(initialize_steps(swap_info, accounts, bump_seed,
                                            INITIAL_SWAP_POOL_AMOUNT),
                           1, <<>>, balance, swap_data)
        packed == SwapState_pack(swap_state, DataOf(swap_data, swap_info))
    IN  IF minted.result # "Ok" THEN minted
        ELSE IF ~packed.ok
            THEN Outcome(packed.err, "processor", minted.issued, balance,
                         swap_data)
        ELSE Outcome("Ok", "none", minted.issued, minted.balance,
                     [swap_data EXCEPT ![swap_info] = packed.val])

\* Faulty variant: two asset accounts of one mint are accepted.
repeated_mint_never(token_a_mint, token_b_mint) ==
    FALSE

\* token_a.mint == token_b.mint, processor.rs:257-259
repeated_mint(token_a_mint, token_b_mint) ==
    token_a_mint = token_b_mint

\* accounts: 1 swap_info, 2 authority, 3 token_a, 4 token_b, 5 pool_mint,
\* 6 token_a_fee_account, 7 token_b_fee_account, 8 destination,
\* 9 token_program.
process_initialize(program_id, fees, accounts, overflow_checks, balance, swap_data) ==
    LET swap_info == accounts[1]
        token_program_id == accounts[9]
        found == find_program_address(swap_info, program_id)
        token_a == unpack_token_account(accounts[3], token_program_id, balance)
        token_b == unpack_token_account(accounts[4], token_program_id, balance)
        token_a_fee_account ==
            unpack_token_account(accounts[6], token_program_id, balance)
        token_b_fee_account ==
            unpack_token_account(accounts[7], token_program_id, balance)
        destination == unpack_token_account(accounts[8], token_program_id, balance)
        pool_mint == unpack_mint(accounts[5], token_program_id, balance)
        supply_ok == validate_supply(token_a.val.amount, token_b.val.amount)
        fees_ok == Fees_validate(fees)
        fees_allowed == validate_fees(fees, overflow_checks)
        R(e) == Reject(e, balance, swap_data)
    IN
    IF already_in_use(DataOf(swap_data, swap_info)) THEN R("AlreadyInUse")
    ELSE IF accounts[2] # found.key THEN R("InvalidProgramAddress")
    ELSE IF ~token_a.ok THEN R(token_a.err)
    ELSE IF ~token_b.ok THEN R(token_b.err)
    ELSE IF ~token_a_fee_account.ok THEN R(token_a_fee_account.err)
    ELSE IF ~token_b_fee_account.ok THEN R(token_b_fee_account.err)
    ELSE IF ~destination.ok THEN R(destination.err)
    ELSE IF ~pool_mint.ok THEN R(pool_mint.err)
    ELSE IF accounts[2] # token_a.val.owner THEN R("InvalidOwner")
    ELSE IF accounts[2] # token_b.val.owner THEN R("InvalidOwner")
    ELSE IF accounts[2] = destination.val.owner THEN R("InvalidOutputOwner")
    ELSE IF accounts[2] = token_a_fee_account.val.owner
        THEN R("InvalidOutputOwner")
    ELSE IF accounts[2] = token_b_fee_account.val.owner
        THEN R("InvalidOutputOwner")
    ELSE IF accounts[2] # pool_mint.val.mint_authority THEN R("InvalidOwner")
    ELSE IF repeated_mint(token_a.val.mint, token_b.val.mint)
        THEN R("RepeatedMint")
    ELSE IF ~supply_ok.ok THEN R(supply_ok.err)
    ELSE IF token_a.val.delegate # None THEN R("InvalidDelegate")
    ELSE IF token_b.val.delegate # None THEN R("InvalidDelegate")
    ELSE IF token_a.val.close_authority # None THEN R("InvalidCloseAuthority")
    ELSE IF token_b.val.close_authority # None THEN R("InvalidCloseAuthority")
    ELSE IF token_a.val.mint # token_a_fee_account.val.mint
        THEN R("IncorrectFeeAccount")
    ELSE IF token_b.val.mint # token_b_fee_account.val.mint
        THEN R("IncorrectFeeAccount")
    ELSE IF pool_mint.val.supply # 0 THEN R("InvalidSupply")
    ELSE IF pool_mint.val.freeze_authority # None
        THEN R("InvalidFreezeAuthority")
    ELSE IF ~fees_ok.ok THEN R(fees_ok.err)
    ELSE IF ~fees_allowed.ok THEN R(fees_allowed.err)
    ELSE initialize_commit(swap_info, accounts, found.bump_seed,
                           new_swap_state(accounts, found.bump_seed,
                                          token_a.val.mint, token_b.val.mint,
                                          fees),
                           balance, swap_data)

\* ============================================================ state machine
VARIABLES
    balance,    \* token account -> amount, mint -> supply (the token ledger)
    swap_data,  \* swap account -> the bytes of its data
    pools,      \* the swap accounts callers address in this run
    request,    \* the last invocation: instruction, arguments, accounts
    outcome,    \* its result, who raised an error, the instructions it issued
    before,     \* the balances the last invocation started from
    created,    \* swap account -> <<the record its Initialize wrote>>, or <<>>
    nops,       \* number of successful invocations so far
    call        \* a library function applied on its own: name, input, output

vars == <<balance, swap_data, pools, request, outcome, before, created, nops, call>>

\* No library function has been applied.
NoCall == [fn |-> "none", input |-> <<>>, output |-> <<>>]

\* ------------------------------------------------------------------ inputs
Amounts == 0..MaxAmount

\* Funding of the accounts before the pool is created; the second one is a
\* pool of 1000 / 1000 whose caller holds 100 of token A.
Scenarios ==
    { [pool_a |-> 2, pool_b |-> 3, user_a |-> 100, user_b |-> 3],
      [pool_a |-> 1000, pool_b |-> 1000, user_a |-> 100, user_b |-> 0],
      [pool_a |-> 0, pool_b |-> 3, user_a |-> 3, user_b |-> 3] }

\* Contents of a swap account before Initialize: zeroed, zeroed but one byte
\* short, or 274 bytes that are no SwapState (init byte 2).
Zeroed(n) == [i \in 1..n |-> 0]
InitialSwapData ==
    { Zeroed(SWAP_STATE_LEN), Zeroed(SWAP_STATE_LEN - 1),
      <<2>> \o Zeroed(SWAP_STATE_LEN - 1) }

\* Fee schedules callers submit; the last one overflows numerator * 3.
WRAP_NUMERATOR == (U64_MAX + 1) \div 2
FeeChoices ==
    { Fees(0, 0), Fees(0, 1), Fees(1, 4), Fees(1, 100), Fees(1, 3),
      Fees(1, 1), Fees(WRAP_NUMERATOR, WRAP_NUMERATOR + 1) }

OtherPool(k) == CHOOSE o \in SwapInfos : o # k

\* Keys a caller may put in place of the right account.
AltKeys(k) ==
    { OtherPool(k), pool_mint_of(OtherPool(k)), token_a_of(k), token_b_of(k),
      fee_a_of(k), USER_A }

\* The right account list with one account replaced.
Substituted(base, k) ==
    { [base EXCEPT ![i] = alt] : i \in DOMAIN base, alt \in AltKeys(k) }
        \ {base}

\* Initialize with a token or mint account in a state it must refuse, and
\* with both sides of the pool on one mint.
Refused(base) ==
    { [base EXCEPT ![3] = DELEGATED_A], [base EXCEPT ![4] = CLOSABLE_B],
      [base EXCEPT ![5] = FROZEN_MINT], [base EXCEPT ![5] = ISSUED_MINT],
      [base EXCEPT ![4] = base[3], ![7] = base[6]] }

InitializeAccounts(k) ==
    << k, authority_of(k), token_a_of(k), token_b_of(k), pool_mint_of(k),
       fee_a_of(k), fee_b_of(k), pool_dest_of(k), TOKEN_PROGRAM >>

DepositAccounts(k) ==
    << k, authority_of(k), USER, USER_A, USER_B, token_a_of(k), token_b_of(k),
       pool_mint_of(k), pool_dest_of(k), TOKEN_PROGRAM >>

WithdrawAccounts(k) ==
    << k, authority_of(k), USER, pool_mint_of(k), pool_dest_of(k),
       token_a_of(k), token_b_of(k), USER_A, USER_B, TOKEN_PROGRAM >>

\* A swap of token A for token B, and of token B for token A.
SwapAccounts(k) ==
    { << k, authority_of(k), USER, USER_A, token_a_of(k), token_b_of(k), USER_B,
         fee_a_of(k), TOKEN_PROGRAM >>,
      << k, authority_of(k), USER, USER_B, token_b_of(k), token_a_of(k), USER_A,
         fee_b_of(k), TOKEN_PROGRAM >> }

\* A swap whose caller passes the pool's own account as its source or as its
\* destination.
DuplicateSwapAccounts(k) ==
    UNION { { [base EXCEPT ![4] = base[5]], [base EXCEPT ![7] = base[6]] } :
               base \in SwapAccounts(k) }

Request(op, args, accounts) == [op |-> op, args |-> args, accounts |-> accounts]

\* ------------------------------------------------------------------- Init
Init ==
    /\ \E sc \in Scenarios :
          balance = [key \in TokenKeys \cup MintKeys |->
                        IF key = token_a_of(10) THEN sc.pool_a
                        ELSE IF key = token_b_of(10) THEN sc.pool_b
                        ELSE IF key = token_a_of(20) THEN 2
                        ELSE IF key = token_b_of(20) THEN 2
                        ELSE IF key = USER_A THEN sc.user_a
                        ELSE IF key = USER_B THEN sc.user_b
                        ELSE IF key \in {OTHER_A, OTHER_B} THEN 3
                        ELSE IF key \in {DELEGATED_A, CLOSABLE_B} THEN 2
                        ELSE IF key = ISSUED_MINT THEN 1
                        ELSE 0]
    /\ \E data \in InitialSwapData :
          swap_data = [k \in SwapInfos |->
                          IF k = 10 THEN data ELSE Zeroed(SWAP_STATE_LEN)]
    /\ pools = {10}
    /\ request = Request("None", <<>>, <<>>)
    /\ outcome = [result |-> "Ok", raised_by |-> "none", issued |-> <<>>]
    /\ before = balance
    /\ created = [k \in SwapInfos |-> <<>>]
    /\ nops = 0
    /\ call = NoCall

\* The host commits an invocation that returns Ok and rolls back one that
\* returns an error (process, processor.rs:644-687, under the runtime).
Commit(req, out) ==
    /\ request' = req
    /\ outcome' = [result |-> out.result, raised_by |-> out.raised_by,
                   issued |-> out.issued]
    /\ before' = balance
    /\ balance' = IF out.result = "Ok" THEN out.balance ELSE balance
    /\ swap_data' = IF out.result = "Ok" THEN out.swap_data ELSE swap_data
    /\ nops' = IF out.result = "Ok" THEN nops + 1 ELSE nops
    /\ created' =
          IF out.result = "Ok" /\ req.op = "Initialize"
          THEN [created EXCEPT ![req.accounts[1]] =
                   << SwapState_unpack(out.swap_data[req.accounts[1]]).val >>]
          ELSE created
    /\ UNCHANGED <<pools, call>>

\* An invocation that returned an error was rolled back and left nothing
\* behind: the invocations that follow it start from the state it started
\* from, so every invocation is explored from the committed states.
Ready == nops < MaxOps /\ outcome.result = "Ok"

\* The inputs of each instruction: every argument with the right accounts,
\* and one choice of arguments with each substituted account list.
Input(args, accounts) == [args |-> args, accounts |-> accounts]

\* Slippage limits for the two sides: one side takes every amount while the
\* other side is at the limit that never rejects.
Limits(loose) ==
    { <<m, loose>> : m \in Amounts } \cup { <<loose, m>> : m \in Amounts }

InitializeInputsOf(k) ==
    { Input(<<f.trade_fee_numerator, f.trade_fee_denominator>>,
            InitializeAccounts(k)) : f \in FeeChoices }
    \cup { Input(<<1, 4>>, a) : a \in Substituted(InitializeAccounts(k), k) }
    \cup { Input(<<1, 4>>, a) : a \in Refused(InitializeAccounts(k)) }

\* A pool token amount far above the supply of the pool mint.
LargePoolTokenAmounts == {100}

DepositInputsOf(k) ==
    { Input(<<p, l[1], l[2]>>, DepositAccounts(k)) :
         p \in Amounts \cup LargePoolTokenAmounts, l \in Limits(MaxAmount) }
    \cup { Input(<<1, MaxAmount, MaxAmount>>, a) :
              a \in Substituted(DepositAccounts(k), k) }

WithdrawInputsOf(k) ==
    { Input(<<p, l[1], l[2]>>, WithdrawAccounts(k)) :
         p \in Amounts \cup LargePoolTokenAmounts, l \in Limits(0) }
    \cup { Input(<<1, 0, 0>>, a) : a \in Substituted(WithdrawAccounts(k), k) }

\* Swap arguments for the pool of 1000 / 1000, around the amount it pays.
LargeAmountsIn == {100}
LargeMinimums == {0, 90, 91, 92}

SwapInputsOf(k) ==
    { Input(<<amount_in, minimum_amount_out>>, a) :
         amount_in \in Amounts, minimum_amount_out \in Amounts,
         a \in SwapAccounts(k) }
    \cup { Input(<<amount_in, minimum_amount_out>>, a) :
              amount_in \in LargeAmountsIn,
              minimum_amount_out \in LargeMinimums, a \in SwapAccounts(k) }
    \cup { Input(<<1, 0>>, a) :
              a \in UNION { Substituted(base, k) : base \in SwapAccounts(k) } }
    \cup { Input(args, a) :
              args \in {<<0, 1>>, <<1, 0>>}, a \in DuplicateSwapAccounts(k) }

InitializeInputs == [k \in SwapInfos |-> InitializeInputsOf(k)]
DepositInputs == [k \in SwapInfos |-> DepositInputsOf(k)]
WithdrawInputs == [k \in SwapInfos |-> WithdrawInputsOf(k)]
SwapInputs == [k \in SwapInfos |-> SwapInputsOf(k)]

Initialize ==
    /\ Ready
    /\ \E k \in pools, overflow_checks \in BOOLEAN :
       \E in \in InitializeInputs[k] :
          Commit(Request("Initialize", in.args, in.accounts),
                 process_initialize(SWAP_PROGRAM, Fees(in.args[1], in.args[2]),
                                    in.accounts, overflow_checks, balance,
                                    swap_data))

DepositTokens ==
    /\ Ready
    /\ \E k \in pools :
       \E in \in DepositInputs[k] :
          Commit(Request("DepositTokens", in.args, in.accounts),
                 process_deposit_tokens(SWAP_PROGRAM, in.args[1], in.args[2],
                                        in.args[3], in.accounts, balance,
                                        swap_data))

WithdrawTokens ==
    /\ Ready
    /\ \E k \in pools :
       \E in \in WithdrawInputs[k] :
          Commit(Request("WithdrawTokens", in.args, in.accounts),
                 process_withdraw_tokens(SWAP_PROGRAM, in.args[1], in.args[2],
                                         in.args[3], in.accounts, balance,
                                         swap_data))

Swap ==
    /\ Ready
    /\ \E k \in pools, overflow_checks \in BOOLEAN :
       \E in \in SwapInputs[k] :
          Commit(Request("Swap", in.args, in.accounts),
                 process_swap(SWAP_PROGRAM, in.args[1], in.args[2], in.accounts,
                              overflow_checks, balance, swap_data))

\* The caller sends tokens straight to the two asset accounts of a pool whose
\* shares have all been burnt: a transaction of two transfers addressed to the
\* token program, in which the swap program takes no part.
FundEmptyPool ==
    /\ Ready
    /\ \E k \in pools, a \in 1..MaxAmount, b \in 1..MaxAmount :
          /\ created[k] # <<>>
          /\ balance[created[k][1].pool_mint] = 0
          /\ balance[created[k][1].token_a] = 0
          /\ balance[created[k][1].token_b] = 0
          /\ LET first == Invoke(balance,
                             token_transfer(k, TOKEN_PROGRAM, USER_A,
                                            created[k][1].token_a, USER,
                                            bump_of(k), a))
                 second == Invoke(first.val,
                              token_transfer(k, TOKEN_PROGRAM, USER_B,
                                             created[k][1].token_b, USER,
                                             bump_of(k), b))
             IN  /\ first.ok
                 /\ second.ok
                 /\ balance' = second.val
          /\ request' = Request("Transfer", <<a, b>>,
                                << USER_A, created[k][1].token_a,
                                   USER_B, created[k][1].token_b >>)
          /\ outcome' = [result |-> "Ok", raised_by |-> "none", issued |-> <<>>]
          /\ before' = balance
          /\ UNCHANGED <<swap_data, pools, created, nops, call>>

Next ==
    Initialize \/ DepositTokens \/ WithdrawTokens \/ Swap \/ FundEmptyPool

Spec == Init /\ [][Next]_vars

\* ============================================================ instructions
\* A SwapInstruction value: the variant and its fields.
Initialize_of(fees) == [variant |-> "Initialize", fees |-> fees]
DepositTokens_of(pool_token_amount, maximum_token_a_amount, maximum_token_b_amount) ==
    [variant |-> "DepositTokens", pool_token_amount |-> pool_token_amount,
     maximum_token_a_amount |-> maximum_token_a_amount,
     maximum_token_b_amount |-> maximum_token_b_amount]
WithdrawTokens_of(pool_token_amount, minimum_token_a_amount, minimum_token_b_amount) ==
    [variant |-> "WithdrawTokens", pool_token_amount |-> pool_token_amount,
     minimum_token_a_amount |-> minimum_token_a_amount,
     minimum_token_b_amount |-> minimum_token_b_amount]
Swap_of(amount_in, minimum_amount_out) ==
    [variant |-> "Swap", amount_in |-> amount_in,
     minimum_amount_out |-> minimum_amount_out]

\* Pack::unpack_unchecked of Fees: the length check, then unpack_from_slice.
Fees_unpack_unchecked(input) ==
    IF Len(input) # FEES_LEN THEN Err("InvalidAccountData")
    ELSE Fees_unpack_from_slice(input)

\* SwapInstruction::unpack_u64: the first 8 bytes as a u64, and the rest.
unpack_u64(input) ==
    IF Len(input) >= 8
    THEN Ok([amount |-> from_le_bytes(SubSeq(input, 1, 8)),
             rest |-> SubSeq(input, 9, Len(input))])
    ELSE Err("InvalidInstruction")

\* The three u64 fields of DepositTokens and WithdrawTokens.
unpack_three(rest) ==
    LET first == unpack_u64(rest)
        second == unpack_u64(first.val.rest)
        third == unpack_u64(second.val.rest)
    IN  IF ~first.ok THEN first
        ELSE IF ~second.ok THEN second
        ELSE IF ~third.ok THEN third
        ELSE Ok(<<first.val.amount, second.val.amount, third.val.amount>>)

\* The two u64 fields of Swap.
unpack_two(rest) ==
    LET first == unpack_u64(rest)
        second == unpack_u64(first.val.rest)
    IN  IF ~first.ok THEN first
        ELSE IF ~second.ok THEN second
        ELSE Ok(<<first.val.amount, second.val.amount>>)

\* "if rest.len() == Fees::LEN", instruction.rs:127
initialize_payload(rest) ==
    Len(rest) = FEES_LEN

\* SwapInstruction::unpack
SwapInstruction_unpack(input) ==
    IF input = <<>> THEN Err("InvalidInstruction")
    ELSE LET tag == Head(input)
             rest == Tail(input)
             fees == Fees_unpack_unchecked(rest)
             three == unpack_three(rest)
             two == unpack_two(rest)
         IN  IF tag = 0
             THEN IF ~initialize_payload(rest) THEN Err("InvalidInstruction")
                  ELSE IF ~fees.ok THEN fees
                  ELSE Ok(Initialize_of(fees.val))
             ELSE IF tag = 1
             THEN IF ~three.ok THEN three
                  ELSE Ok(DepositTokens_of(three.val[1], three.val[2],
                                           three.val[3]))
             ELSE IF tag = 2
             THEN IF ~three.ok THEN three
                  ELSE Ok(WithdrawTokens_of(three.val[1], three.val[2],
                                            three.val[3]))
             ELSE IF tag = 3
             THEN IF ~two.ok THEN two
                  ELSE Ok(Swap_of(two.val[1], two.val[2]))
             ELSE Err("InvalidInstruction")

\* Faulty variant: the two fields of Swap are written in the other order.
SwapInstruction_pack_reversed(i) ==
    IF i.variant = "Initialize" THEN <<0>> \o Fees_pack_into_slice(i.fees)
    ELSE IF i.variant = "DepositTokens"
    THEN <<1>> \o to_le_bytes(i.pool_token_amount, 8)
             \o to_le_bytes(i.maximum_token_a_amount, 8)
             \o to_le_bytes(i.maximum_token_b_amount, 8)
    ELSE IF i.variant = "WithdrawTokens"
    THEN <<2>> \o to_le_bytes(i.pool_token_amount, 8)
             \o to_le_bytes(i.minimum_token_a_amount, 8)
             \o to_le_bytes(i.minimum_token_b_amount, 8)
    ELSE <<3>> \o to_le_bytes(i.minimum_amount_out, 8)
             \o to_le_bytes(i.amount_in, 8)

\* SwapInstruction::pack
SwapInstruction_pack(i) ==
    IF i.variant = "Initialize" THEN <<0>> \o Fees_pack_into_slice(i.fees)
    ELSE IF i.variant = "DepositTokens"
    THEN <<1>> \o to_le_bytes(i.pool_token_amount, 8)
             \o to_le_bytes(i.maximum_token_a_amount, 8)
             \o to_le_bytes(i.maximum_token_b_amount, 8)
    ELSE IF i.variant = "WithdrawTokens"
    THEN <<2>> \o to_le_bytes(i.pool_token_amount, 8)
             \o to_le_bytes(i.minimum_token_a_amount, 8)
             \o to_le_bytes(i.minimum_token_b_amount, 8)
    ELSE <<3>> \o to_le_bytes(i.amount_in, 8)
             \o to_le_bytes(i.minimum_amount_out, 8)

\* ======================================================= library functions
\* The functions of fees.rs, constraints.rs, state.rs and instruction.rs
\* applied on their own, each to every input of a bounded set.
\* u64 values: the small amounts, the values of the examples, and the ends of
\* the range.
Words ==
    Amounts \cup {3, 4, 50, 100, 255, 256, 1000, WRAP_NUMERATOR,
                  WRAP_NUMERATOR + 1, U64_MAX}
FeeInputs == { Fees(n, d) : n \in Words, d \in Words }

\* Instruction values with distinct fields of one and of two bytes.
FieldChoices == { <<1, 2, 3>>, <<256, 1000, 0>>, <<U64_MAX, 255, 4>> }
Instructions ==
    { Initialize_of(Fees(f[1], f[2])) : f \in FieldChoices }
    \cup { DepositTokens_of(f[1], f[2], f[3]) : f \in FieldChoices }
    \cup { WithdrawTokens_of(f[1], f[2], f[3]) : f \in FieldChoices }
    \cup { Swap_of(f[1], f[2]) : f \in FieldChoices }

\* Instruction buffers: a tag, then three encoded fields and one more byte,
\* cut at every length from 0 to 26.
ExtraBytes == MaxAmount
Tags == {0, 1, 2, 3, 4, 255}
InstructionBuffers ==
    { SubSeq(<<tag>> \o to_le_bytes(f[1], 8) \o to_le_bytes(f[2], 8)
                 \o to_le_bytes(f[3], 8) \o [i \in 1..ExtraBytes |-> 7],
             1, n) :
         tag \in Tags, f \in FieldChoices, n \in 0..(25 + ExtraBytes) }

\* Pool records: both init flags, with distinct keys in every field.
SwapStates ==
    { [is_initialized |-> flag, bump_seed |-> bump, token_program_id |-> 1,
       token_a |-> 2, token_b |-> 3, pool_mint |-> 4, token_a_mint |-> 5,
       token_b_mint |-> 6, token_a_fee_account |-> 7,
       token_b_fee_account |-> 8, fees |-> fees] :
         flag \in BOOLEAN, bump \in {0, 254, 255},
         fees \in {Fees(1, 4), Fees(0, 0), Fees(1000, U64_MAX)} }

\* Buffers presented to unpack: packed records with the init byte replaced
\* and with a byte removed or added.
StateBuffers ==
    UNION { { [SwapState_pack_into_slice(v) EXCEPT ![1] = b] : b \in 0..3 }
            \cup { Tail(SwapState_pack_into_slice(v)),
                   SwapState_pack_into_slice(v) \o <<0>> } :
               v \in SwapStates }

FunctionInit ==
    /\ Init
    /\ balance[token_a_of(10)] = 1000
    /\ swap_data[10] = Zeroed(SWAP_STATE_LEN)

\* Every function is applied once, to one input.
Idle == call = NoCall

Apply(fn, input, output) ==
    /\ call' = [fn |-> fn, input |-> input, output |-> output]
    /\ UNCHANGED <<balance, swap_data, pools, request, outcome, before, created, nops>>

ApplyFeesValidate ==
    /\ Idle
    /\ \E fees \in FeeInputs : Apply("Fees::validate", fees, Fees_validate(fees))

ApplyValidateFees ==
    /\ Idle
    /\ \E fees \in FeeInputs, overflow_checks \in BOOLEAN :
          Apply("validate_fees", fees, validate_fees(fees, overflow_checks))

ApplyCalculateFee ==
    /\ Idle
    /\ \E token_amount \in Words, fee_numerator \in Words, fee_denominator \in Words :
          Apply("calculate_fee",
                <<token_amount, fee_numerator, fee_denominator>>,
                calculate_fee(token_amount, fee_numerator, fee_denominator))

ApplyInstructionUnpack ==
    /\ Idle
    /\ \E input \in InstructionBuffers :
          Apply("SwapInstruction::unpack", input, SwapInstruction_unpack(input))

ApplyInstructionPack ==
    /\ Idle
    /\ \E i \in Instructions :
          Apply("SwapInstruction::pack", i, SwapInstruction_pack(i))

ApplyFeesPack ==
    /\ Idle
    /\ \E fees \in FeeInputs :
          Apply("Fees::pack_into_slice", fees, Fees_pack_into_slice(fees))

ApplySwapStatePack ==
    /\ Idle
    /\ \E v \in SwapStates :
          Apply("SwapState::pack_into_slice", v, SwapState_pack_into_slice(v))

ApplySwapStateUnpack ==
    /\ Idle
    /\ \E input \in StateBuffers :
          Apply("SwapState::unpack", input,
                [checked |-> SwapState_unpack(input),
                 unchecked |-> SwapState_unpack_unchecked(input)])

FunctionNext ==
    \/ ApplyFeesValidate
    \/ ApplyValidateFees
    \/ ApplyCalculateFee
    \/ ApplyInstructionUnpack
    \/ ApplyInstructionPack
    \/ ApplyFeesPack
    \/ ApplySwapStatePack
    \/ ApplySwapStateUnpack

FunctionSpec == FunctionInit /\ [][FunctionNext]_vars

\* =============================================================== two pools
\* Both swap accounts are operated, each by a caller with token accounts of
\* its own; every invocation goes through Processor::process as in Spec.
CallerOf(k) == IF k = 10 THEN <<USER_A, USER_B>> ELSE <<OTHER_A, OTHER_B>>

\* The right account lists of pool k for its caller.
PoolDepositAccounts(k) ==
    [DepositAccounts(k) EXCEPT ![4] = CallerOf(k)[1], ![5] = CallerOf(k)[2]]
PoolWithdrawAccounts(k) ==
    [WithdrawAccounts(k) EXCEPT ![8] = CallerOf(k)[1], ![9] = CallerOf(k)[2]]
PoolSwapAccounts(k) ==
    { << k, authority_of(k), USER, CallerOf(k)[1], token_a_of(k), token_b_of(k),
         CallerOf(k)[2], fee_a_of(k), TOKEN_PROGRAM >>,
      << k, authority_of(k), USER, CallerOf(k)[2], token_b_of(k), token_a_of(k),
         CallerOf(k)[1], fee_b_of(k), TOKEN_PROGRAM >> }

\* Account lists of pool k that name an asset account of the other pool: in
\* the place of the pool's own asset account, and in the place of an account
\* of the caller.
CrossedDepositAccounts(k) ==
    { [PoolDepositAccounts(k) EXCEPT ![6] = token_a_of(OtherPool(k))],
      [PoolDepositAccounts(k) EXCEPT ![4] = token_a_of(OtherPool(k))] }
CrossedWithdrawAccounts(k) ==
    { [PoolWithdrawAccounts(k) EXCEPT ![7] = token_b_of(OtherPool(k))],
      [PoolWithdrawAccounts(k) EXCEPT ![8] = token_a_of(OtherPool(k))] }
CrossedSwapAccounts(k) ==
    { [a EXCEPT ![6] = token_b_of(OtherPool(k))] : a \in PoolSwapAccounts(k) }
    \cup { << k, authority_of(k), USER, CallerOf(k)[1], token_a_of(k),
              token_b_of(k), token_b_of(OtherPool(k)), fee_a_of(k),
              TOKEN_PROGRAM >> }

PoolAmounts == {1, MaxAmount}
PoolInitializeInputsOf(k) == { Input(<<1, 4>>, InitializeAccounts(k)) }
PoolDepositInputsOf(k) ==
    { Input(<<p, U64_MAX, U64_MAX>>, a) :
         p \in PoolAmounts,
         a \in {PoolDepositAccounts(k)} \cup CrossedDepositAccounts(k) }
PoolWithdrawInputsOf(k) ==
    { Input(<<p, 0, 0>>, a) :
         p \in PoolAmounts,
         a \in {PoolWithdrawAccounts(k)} \cup CrossedWithdrawAccounts(k) }
PoolSwapInputsOf(k) ==
    { Input(<<amount_in, 0>>, a) :
         amount_in \in PoolAmounts,
         a \in PoolSwapAccounts(k) \cup CrossedSwapAccounts(k) }

\* One invocation more than in Spec: both pools are created and operated.
MaxPoolOps == MaxOps + 1
PoolsReady == nops < MaxPoolOps /\ outcome.result = "Ok"

PoolInitialize ==
    /\ PoolsReady
    /\ \E k \in SwapInfos :
       \E in \in PoolInitializeInputsOf(k) :
          Commit(Request("Initialize", in.args, in.accounts),
                 process_initialize(SWAP_PROGRAM, Fees(in.args[1], in.args[2]),
                                    in.accounts, TRUE, balance, swap_data))

PoolDepositTokens ==
    /\ PoolsReady
    /\ \E k \in SwapInfos :
       \E in \in PoolDepositInputsOf(k) :
          Commit(Request("DepositTokens", in.args, in.accounts),
                 process_deposit_tokens(SWAP_PROGRAM, in.args[1], in.args[2],
                                        in.args[3], in.accounts, balance,
                                        swap_data))

PoolWithdrawTokens ==
    /\ PoolsReady
    /\ \E k \in SwapInfos :
       \E in \in PoolWithdrawInputsOf(k) :
          Commit(Request("WithdrawTokens", in.args, in.accounts),
                 process_withdraw_tokens(SWAP_PROGRAM, in.args[1], in.args[2],
                                         in.args[3], in.accounts, balance,
                                         swap_data))

PoolSwap ==
    /\ PoolsReady
    /\ \E k \in SwapInfos :
       \E in \in PoolSwapInputsOf(k) :
          Commit(Request("Swap", in.args, in.accounts),
                 process_swap(SWAP_PROGRAM, in.args[1], in.args[2], in.accounts,
                              TRUE, balance, swap_data))

\* The caller of a pool whose shares have all been burnt sends tokens straight
\* to its two asset accounts, as in FundEmptyPool.
PoolFundEmptyPool ==
    /\ PoolsReady
    /\ \E k \in SwapInfos, a \in PoolAmounts, b \in PoolAmounts :
          /\ created[k] # <<>>
          /\ balance[created[k][1].pool_mint] = 0
          /\ balance[created[k][1].token_a] = 0
          /\ balance[created[k][1].token_b] = 0
          /\ LET first == Invoke(balance,
                             token_transfer(k, TOKEN_PROGRAM, CallerOf(k)[1],
                                            created[k][1].token_a, USER,
                                            bump_of(k), a))
                 second == Invoke(first.val,
                              token_transfer(k, TOKEN_PROGRAM, CallerOf(k)[2],
                                             created[k][1].token_b, USER,
                                             bump_of(k), b))
             IN  /\ first.ok
                 /\ second.ok
                 /\ balance' = second.val
          /\ request' = Request("Transfer", <<a, b>>,
                                << CallerOf(k)[1], created[k][1].token_a,
                                   CallerOf(k)[2], created[k][1].token_b >>)
          /\ outcome' = [result |-> "Ok", raised_by |-> "none", issued |-> <<>>]
          /\ before' = balance
          /\ UNCHANGED <<swap_data, pools, created, nops, call>>

\* The first funding of Scenarios, with both swap accounts zeroed.
PoolsInit ==
    /\ Init
    /\ balance[USER_B] = 3
    /\ balance[token_a_of(10)] = 2
    /\ swap_data[10] = Zeroed(SWAP_STATE_LEN)

PoolsNext ==
    \/ PoolInitialize
    \/ PoolDepositTokens
    \/ PoolWithdrawTokens
    \/ PoolSwap
    \/ PoolFundEmptyPool

PoolsSpec == PoolsInit /\ [][PoolsNext]_vars

\* ================================================================== claims
\* What the last invocation was and did.
LastIs(op) == request.op = op
Succeeded == request.op # "None" /\ outcome.result = "Ok"
RejectedByProcessor == outcome.raised_by = "processor"
Acct(i) == request.accounts[i]
Arg(i) == request.args[i]
Issued == outcome.issued

\* The fields of an issued instruction that name what it moves.
Shape(c) == <<c.kind, c.source, c.destination, c.mint, c.authority, c.amount>>
Transfer(source, destination, authority, amount) ==
    <<"transfer", source, destination, None, authority, amount>>
MintTo(mint, destination, authority, amount) ==
    <<"mint_to", None, destination, mint, authority, amount>>
Burn(account, mint, authority, amount) ==
    <<"burn", account, None, mint, authority, amount>>
Shapes(cmds) == [i \in 1..Len(cmds) |-> Shape(cmds[i])]

\* A swap account holds an initialized record: 274 bytes, init byte 1.
HoldsPool(data) == Len(data) = SWAP_STATE_LEN /\ data[1] = 1

\* The fee schedule of the pool the last invocation addressed.
PoolFees == created[Acct(1)][1].fees

\* The fee of the fee model: zero for a zero numerator or amount, else the
\* floor of amount * numerator / denominator, raised to 1 when it is 0.
ExpectedFee(amount, numerator, denominator) ==
    IF numerator = 0 \/ amount = 0 THEN 0
    ELSE IF (amount * numerator) \div denominator = 0 THEN 1
    ELSE (amount * numerator) \div denominator

\* The quantities of the last swap, from the balances it started with.
SwapX == before[Acct(5)]
SwapY == before[Acct(6)]
SwapFee ==
    ExpectedFee(Arg(1), PoolFees.trade_fee_numerator,
                PoolFees.trade_fee_denominator)
SwapNet == Arg(1) - SwapFee
SwapOut == SwapY - (SwapX * SwapY) \div (SwapX + SwapNet)

\* The quantities of the last deposit.
DepositSupply == before[Acct(8)]
DepositPoolTokens ==
    IF DepositSupply > 0 THEN Arg(1) ELSE INITIAL_SWAP_POOL_AMOUNT
DepositDivisor ==
    IF DepositSupply > 0 THEN DepositSupply ELSE INITIAL_SWAP_POOL_AMOUNT
RequiredA == (before[Acct(6)] * DepositPoolTokens) \div DepositDivisor
RequiredB == (before[Acct(7)] * DepositPoolTokens) \div DepositDivisor

\* The quantities of the last withdrawal.
WithdrawSupply == before[Acct(4)]
WithdrawA ==
    Min(before[Acct(6)], (before[Acct(6)] * Arg(1)) \div WithdrawSupply)
WithdrawB ==
    Min(before[Acct(7)], (before[Acct(7)] * Arg(1)) \div WithdrawSupply)

\* The accounts of the last swap pass every account check: the swap account
\* holds a created pool, the authority is its derived authority, the swap
\* source and destination are its two asset accounts and are not the caller's
\* accounts, the fee account is one of its fee accounts and has the mint of
\* the source side, and the token program is the recorded one.
SwapAccountsValid ==
    /\ Acct(1) \in SwapInfos
    /\ created[Acct(1)] # <<>>
    /\ LET pool == created[Acct(1)][1] IN
       /\ Acct(2) = authority_of(Acct(1))
       /\ {Acct(5), Acct(6)} = {pool.token_a, pool.token_b}
       /\ Acct(5) # Acct(6)
       /\ Acct(4) # Acct(5)
       /\ Acct(7) # Acct(6)
       /\ Acct(8) \in {pool.token_a_fee_account, pool.token_b_fee_account}
       /\ AccountOf(Acct(8)).mint = AccountOf(Acct(5)).mint
       /\ Acct(9) = pool.token_program_id

\* C1: a DepositTokens, WithdrawTokens or Swap that the processor itself
\* rejects (a check or a conversion of its own failed) has issued no
\* transfer, mint or burn instruction.
C1_RejectsBeforeMoving ==
    (request.op \in {"DepositTokens", "WithdrawTokens", "Swap"}
        /\ RejectedByProcessor)
    => Issued = <<>>

C1_Witness ==
    /\ LastIs("Swap")
    /\ outcome.result = "ExceededSlippage"
    /\ RejectedByProcessor
    /\ Acct(1) = 10 /\ created[10] # <<>>

\* C2: an Initialize that the processor itself rejects has issued no mint_to
\* instruction.
C2_InitializeRejectsBeforeMint ==
    (LastIs("Initialize") /\ RejectedByProcessor) => Issued = <<>>

\* C3: a swap account that holds an initialized record holds one after every
\* step, and an Initialize addressed to it is rejected with AlreadyInUse,
\* issues nothing and leaves its bytes unchanged.
C3_OneWayLifecycle ==
    [][\A k \in SwapInfos :
          HoldsPool(swap_data[k]) =>
             /\ HoldsPool(swap_data'[k])
             /\ (request'.op = "Initialize" /\ request'.accounts[1] = k)
                   => /\ outcome'.result = "AlreadyInUse"
                      /\ outcome'.issued = <<>>
                      /\ swap_data'[k] = swap_data[k]]_vars

C3_Witness ==
    /\ LastIs("Initialize")
    /\ outcome.result = "AlreadyInUse"
    /\ HoldsPool(swap_data[Acct(1)])

\* C4: the record of a created pool decodes, in every state, to the record
\* its Initialize wrote: no deposit, withdrawal or swap changes a field.
C4_RecordNeverModified ==
    \A k \in SwapInfos :
       created[k] # <<>> => SwapState_unpack(swap_data[k]) = Ok(created[k][1])

C4_Witness ==
    /\ LastIs("DepositTokens")
    /\ Succeeded
    /\ created[Acct(1)] # <<>>
    /\ SwapState_unpack(swap_data[Acct(1)]).val.token_a = Acct(6)

\* C5: a successful swap pays the caller y - floor(x * y / (x + net_input)),
\* with net_input the input less the trading fee.
C5_SwapAmountOut ==
    (LastIs("Swap") /\ Succeeded)
    => /\ Issued[2].amount = SwapOut
       /\ balance[Acct(7)] = before[Acct(7)] + SwapOut

C5_Witness ==
    /\ LastIs("Swap")
    /\ Succeeded
    /\ SwapFee > 0
    /\ Issued[2].amount > 0
    /\ (SwapX * SwapY) % (SwapX + SwapNet) # 0

\* C6: a swap is rejected with ExceededSlippage only when the amount out is
\* below the minimum, it is rejected so whenever its accounts pass the
\* account checks and the amount out is below the minimum, and a successful
\* swap pays the caller at least the minimum.
C6_SlippageExactlyWhenBelowMinimum ==
    LastIs("Swap") =>
       /\ outcome.result = "ExceededSlippage"
             => (RejectedByProcessor /\ SwapOut < Arg(2))
       /\ ( /\ SwapAccountsValid
            /\ SwapX + SwapNet # 0
            /\ SwapOut < Arg(2) )
             => outcome.result = "ExceededSlippage"
       /\ Succeeded
             => /\ Issued[2].amount >= Arg(2)
                /\ balance[Acct(7)] >= before[Acct(7)] + Arg(2)

C6_Witness ==
    /\ LastIs("Swap")
    /\ Succeeded
    /\ Arg(2) > 0
    /\ Issued[2].amount = Arg(2)

\* The worked example: a swap of 100 of token A on a pool holding 1000 of
\* each token with the fee schedule 1/100.
ExampleSwap ==
    /\ LastIs("Swap")
    /\ Arg(1) = 100
    /\ SwapAccountsValid
    /\ PoolFees = Fees(1, 100)
    /\ SwapX = 1000
    /\ SwapY = 1000
    /\ before[Acct(4)] >= 100

\* C7 as stated: the example swap pays 90, succeeds with minimum 90 and fails
\* with minimum 91.
C7_ExampleAsStated ==
    ExampleSwap =>
       /\ Arg(2) = 90 => (Succeeded /\ Issued[2].amount = 90)
       /\ Arg(2) = 91 => outcome.result = "ExceededSlippage"

\* C7: the example swap charges the fee 1 on the net input 99 and pays 91:
\* it succeeds with every minimum up to 91 and fails with ExceededSlippage
\* with the minimum 92.
C7_ExampleAmended ==
    ExampleSwap =>
       /\ Arg(2) <= 91
             => /\ Succeeded
                /\ Issued[1].amount = 99
                /\ Issued[2].amount = 91
                /\ Issued[3].amount = 1
       /\ Arg(2) = 92 => outcome.result = "ExceededSlippage"

C7_Witness ==
    /\ ExampleSwap
    /\ Arg(2) = 91
    /\ Succeeded

\* C8: a successful swap issues exactly three transfers, in this order: the
\* net input from the caller's source to the pool's source account under the
\* user transfer authority, the amount out from the pool's destination to the
\* caller's destination account under the pool authority, and the fee from
\* the caller's source to the fee account under the user transfer authority.
C8_SwapTransfersInOrder ==
    (LastIs("Swap") /\ Succeeded)
    => /\ Shapes(Issued) =
             << Transfer(Acct(4), Acct(5), Acct(3), SwapNet),
                Transfer(Acct(6), Acct(7), Acct(2), SwapOut),
                Transfer(Acct(4), Acct(8), Acct(3), SwapFee) >>
       /\ Acct(2) = authority_of(Acct(1))

C8_Witness ==
    /\ LastIs("Swap")
    /\ Succeeded
    /\ Len(Issued) = 3
    /\ Issued[1].amount # Issued[3].amount
    /\ Issued[2].amount # Issued[3].amount

\* C9: a successful deposit issues exactly the transfer of required_a into
\* the pool's token-A account, the transfer of required_b into the pool's
\* token-B account and the mint of the pool tokens to the caller, in this
\* order; no deposit issues the mint before both transfers.
C9_DepositCommandsInOrder ==
    LastIs("DepositTokens") =>
       /\ Succeeded
             => Shapes(Issued) =
                   << Transfer(Acct(4), Acct(6), Acct(3), RequiredA),
                      Transfer(Acct(5), Acct(7), Acct(3), RequiredB),
                      MintTo(Acct(8), Acct(9), Acct(2), DepositPoolTokens) >>
       /\ \A i \in 1..Len(Issued) : Issued[i].kind = "mint_to" => i = 3

C9_Witness ==
    /\ LastIs("DepositTokens")
    /\ Succeeded
    /\ Len(Issued) = 3
    /\ balance[Acct(8)] > before[Acct(8)]

\* C10: a successful withdrawal issues the burn of the pool tokens first,
\* then the token-A transfer exactly when amount_a > 0, then the token-B
\* transfer exactly when amount_b > 0; no withdrawal issues a transfer
\* before the burn or a transfer of amount 0.
C10_WithdrawBurnsFirst ==
    LastIs("WithdrawTokens") =>
       /\ Succeeded
             => Shapes(Issued) =
                   << Burn(Acct(5), Acct(4), Acct(3), Arg(1)) >>
                   \o (IF WithdrawA > 0
                       THEN << Transfer(Acct(6), Acct(8), Acct(2), WithdrawA) >>
                       ELSE <<>>)
                   \o (IF WithdrawB > 0
                       THEN << Transfer(Acct(7), Acct(9), Acct(2), WithdrawB) >>
                       ELSE <<>>)
       /\ \A i \in 1..Len(Issued) :
             IF i = 1 THEN Issued[i].kind = "burn"
             ELSE Issued[i].kind = "transfer" /\ Issued[i].amount > 0

C10_Witness ==
    /\ LastIs("WithdrawTokens")
    /\ Succeeded
    /\ Len(Issued) = 3
    /\ balance[Acct(4)] < before[Acct(4)]

\* The accounts of the last deposit pass every account check, stated against
\* the record the pool's Initialize wrote.
DepositAccountsValid ==
    /\ Acct(1) \in SwapInfos
    /\ created[Acct(1)] # <<>>
    /\ LET pool == created[Acct(1)][1] IN
       /\ Acct(2) = authority_of(Acct(1))
       /\ Acct(6) = pool.token_a
       /\ Acct(7) = pool.token_b
       /\ Acct(8) = pool.pool_mint
       /\ Acct(10) = pool.token_program_id
       /\ Acct(4) # Acct(6)
       /\ Acct(5) # Acct(7)

DepositZero == RequiredA = 0 \/ RequiredB = 0
DepositOver == RequiredA > Arg(2) \/ RequiredB > Arg(3)

C12_DepositBootstrap ==
    ( /\ LastIs("DepositTokens")
      /\ DepositAccountsValid
      /\ DepositSupply = 0 )
    => /\ (DepositZero \/ DepositOver)
             => /\ RejectedByProcessor
                /\ outcome.result \in {"ZeroTradingTokens", "ExceededSlippage"}
       /\ ~(DepositZero \/ DepositOver) => ~RejectedByProcessor
       /\ Succeeded
             => /\ Issued[1].amount = RequiredA
                /\ Issued[2].amount = RequiredB
                /\ Issued[3].kind = "mint_to"
                /\ Issued[3].amount = INITIAL_SWAP_POOL_AMOUNT
                /\ balance[Acct(8)] = INITIAL_SWAP_POOL_AMOUNT
                /\ balance[Acct(9)] - before[Acct(9)] = INITIAL_SWAP_POOL_AMOUNT

C12_Witness ==
    /\ LastIs("DepositTokens")
    /\ DepositAccountsValid
    /\ DepositSupply = 0
    /\ Succeeded
    /\ Arg(1) # INITIAL_SWAP_POOL_AMOUNT
    /\ Issued[3].amount = INITIAL_SWAP_POOL_AMOUNT

\* The accounts of the last withdrawal pass every account check, stated
\* against the record the pool's Initialize wrote.
WithdrawAccountsValid ==
    /\ Acct(1) \in SwapInfos
    /\ created[Acct(1)] # <<>>
    /\ LET pool == created[Acct(1)][1] IN
       /\ Acct(2) = authority_of(Acct(1))
       /\ Acct(6) = pool.token_a
       /\ Acct(7) = pool.token_b
       /\ Acct(4) = pool.pool_mint
       /\ Acct(10) = pool.token_program_id
       /\ Acct(8) # Acct(6)
       /\ Acct(9) # Acct(7)

\* The proportional amounts of the last withdrawal before they are clamped.
WithdrawWideA == (before[Acct(6)] * Arg(1)) \div WithdrawSupply
WithdrawWideB == (before[Acct(7)] * Arg(1)) \div WithdrawSupply

\* C13: a withdrawal whose proportional amount for a side exceeds the balance
\* of that side is rejected by the processor only with ExceededSlippage or
\* ZeroTradingTokens, and when it succeeds it pays no more than the pool held.
C13_WithdrawClampNeverFails ==
    ( /\ LastIs("WithdrawTokens")
      /\ WithdrawAccountsValid
      /\ WithdrawSupply > 0
      /\ (WithdrawWideA > before[Acct(6)] \/ WithdrawWideB > before[Acct(7)]) )
    => /\ RejectedByProcessor
             => outcome.result \in {"ExceededSlippage", "ZeroTradingTokens"}
       /\ Succeeded
             => /\ before[Acct(6)] - balance[Acct(6)] <= before[Acct(6)]
                /\ before[Acct(7)] - balance[Acct(7)] <= before[Acct(7)]

WithdrawUnder == WithdrawA < Arg(2) \/ WithdrawB < Arg(3)
WithdrawZero ==
    \/ (WithdrawA = 0 /\ before[Acct(6)] # 0)
    \/ (WithdrawB = 0 /\ before[Acct(7)] # 0)

\* C14: a withdrawal whose proportional amounts fit 64 bits is rejected with
\* ExceededSlippage only if a clamped amount is below its minimum and with
\* ZeroTradingTokens only if a clamped amount is 0 while the pool holds that
\* token; it is rejected with one of the two whenever either holds (with that
\* one when only one of them holds) and is not rejected by the processor
\* otherwise, so a side the pool holds nothing of is withdrawn with amount 0;
\* a successful withdrawal pays exactly the clamped amounts, which are at
\* least the minima.
C14_WithdrawRejections ==
    ( /\ LastIs("WithdrawTokens")
      /\ WithdrawAccountsValid
      /\ WithdrawSupply > 0
      /\ WithdrawWideA <= U64_MAX
      /\ WithdrawWideB <= U64_MAX )
    => /\ outcome.result = "ExceededSlippage" => WithdrawUnder
       /\ outcome.result = "ZeroTradingTokens" => WithdrawZero
       /\ (WithdrawUnder \/ WithdrawZero)
             => /\ RejectedByProcessor
                /\ outcome.result \in {"ExceededSlippage", "ZeroTradingTokens"}
       /\ (WithdrawUnder /\ ~WithdrawZero) => outcome.result = "ExceededSlippage"
       /\ (WithdrawZero /\ ~WithdrawUnder) => outcome.result = "ZeroTradingTokens"
       /\ ~(WithdrawUnder \/ WithdrawZero) => ~RejectedByProcessor
       /\ Succeeded
             => /\ WithdrawA >= Arg(2)
                /\ WithdrawB >= Arg(3)
                /\ ( /\ Cardinality({Acct(6), Acct(7), Acct(8), Acct(9)}) = 4
                     /\ {Acct(8), Acct(9)} \subseteq DOMAIN balance )
                      => /\ balance[Acct(8)] - before[Acct(8)] = WithdrawA
                         /\ balance[Acct(9)] - before[Acct(9)] = WithdrawB
                         /\ before[Acct(6)] - balance[Acct(6)] = WithdrawA
                         /\ before[Acct(7)] - balance[Acct(7)] = WithdrawB

C14_Witness ==
    /\ LastIs("WithdrawTokens")
    /\ WithdrawAccountsValid
    /\ Succeeded
    /\ before[Acct(7)] = 0
    /\ before[Acct(6)] > 0
    /\ Len(Issued) = 2
    /\ Acct(9) = USER_B
    /\ balance[Acct(8)] > before[Acct(8)]

\* The last swap names the caller's own account where the pool's account is,
\* and passes every check that precedes that comparison.
SwapDuplicatesAccount ==
    /\ LastIs("Swap")
    /\ Acct(1) \in SwapInfos
    /\ created[Acct(1)] # <<>>
    /\ Acct(2) = authority_of(Acct(1))
    /\ {Acct(5), Acct(6)} =
          {created[Acct(1)][1].token_a, created[Acct(1)][1].token_b}
    /\ Acct(5) # Acct(6)
    /\ (Acct(4) = Acct(5) \/ Acct(7) = Acct(6))

\* C15: a swap whose source account is the pool's swap-source account, or
\* whose destination account is the pool's swap-destination account, is
\* rejected by the processor with InvalidInput and issues nothing, whatever
\* the amounts, the balances and the fee account are.
C15_DuplicateAccountRejected ==
    SwapDuplicatesAccount
    => /\ outcome.result = "InvalidInput"
       /\ RejectedByProcessor
       /\ Issued = <<>>

C15_Witness ==
    /\ SwapDuplicatesAccount
    /\ Acct(4) = Acct(5)
    /\ outcome.result = "InvalidInput"
    /\ Arg(1) = 0
    /\ Arg(2) > 0

\* C16: in a successful swap the swap source and destination are the two
\* recorded asset accounts, one each, and the fee account is the recorded fee
\* account of the source side: it has the mint recorded for that side, and
\* the fee transfer goes from the caller's source account into it.
C16_SwapUsesRecordedAccounts ==
    (LastIs("Swap") /\ Succeeded)
    => LET pool == created[Acct(1)][1] IN
       /\ {Acct(5), Acct(6)} = {pool.token_a, pool.token_b}
       /\ Acct(5) # Acct(6)
       /\ Acct(8) \in {pool.token_a_fee_account, pool.token_b_fee_account}
       /\ AccountOf(Acct(8)).mint = AccountOf(Acct(5)).mint
       /\ Acct(5) = pool.token_a
             => /\ Acct(8) = pool.token_a_fee_account
                /\ AccountOf(Acct(8)).mint = pool.token_a_mint
       /\ Acct(5) = pool.token_b
             => /\ Acct(8) = pool.token_b_fee_account
                /\ AccountOf(Acct(8)).mint = pool.token_b_mint
       /\ Issued[3].destination = Acct(8)
       /\ AccountOf(Issued[3].source).mint = AccountOf(Acct(8)).mint

C16_Witness ==
    /\ LastIs("Swap")
    /\ Succeeded
    /\ Acct(5) = created[Acct(1)][1].token_b
    /\ Acct(8) = created[Acct(1)][1].token_b_fee_account
    /\ balance[Acct(8)] > before[Acct(8)]

\* The record an Initialize with the last request's accounts and fees has to
\* write: the accounts as presented, the mints of the two asset accounts and
\* the fee schedule of the arguments.
PresentedRecord ==
    [is_initialized |-> TRUE,
     bump_seed |-> bump_of(Acct(1)),
     token_program_id |-> Acct(9),
     token_a |-> Acct(3),
     token_b |-> Acct(4),
     pool_mint |-> Acct(5),
     token_a_mint |-> AccountOf(Acct(3)).mint,
     token_b_mint |-> AccountOf(Acct(4)).mint,
     token_a_fee_account |-> Acct(6),
     token_b_fee_account |-> Acct(7),
     fees |-> Fees(Arg(1), Arg(2))]

\* C17: a successful Initialize issues exactly one instruction, the mint of
\* INITIAL_SWAP_POOL_AMOUNT pool tokens to the destination account under the
\* pool authority, whatever the token-A and token-B balances are, and leaves
\* in the swap account the bytes of an initialized record that holds the
\* accounts, mints and fee schedule of the request.
C17_InitializeMintsAndPersists ==
    (LastIs("Initialize") /\ Succeeded)
    => /\ Shapes(Issued) =
             << MintTo(Acct(5), Acct(8), Acct(2), INITIAL_SWAP_POOL_AMOUNT) >>
       /\ balance[Acct(5)] = INITIAL_SWAP_POOL_AMOUNT
       /\ balance[Acct(8)] = before[Acct(8)] + INITIAL_SWAP_POOL_AMOUNT
       /\ balance[Acct(3)] = before[Acct(3)]
       /\ balance[Acct(4)] = before[Acct(4)]
       /\ Len(swap_data[Acct(1)]) = SWAP_STATE_LEN
       /\ swap_data[Acct(1)][1] = 1
       /\ SwapState_unpack(swap_data[Acct(1)]) = Ok(PresentedRecord)

C17_Witness ==
    /\ LastIs("Initialize")
    /\ Succeeded
    /\ before[Acct(3)] = 1000
    /\ Arg(2) = 100
    /\ SwapState_unpack(swap_data[Acct(1)]).val.fees = Fees(1, 100)

\* An asset account Initialize accepts: a token account the authority owns,
\* holding tokens, with no delegate and no close authority.
AdmissibleAsset(key, authority) ==
    /\ AccountOf(key).kind = "account"
    /\ AccountOf(key).owner = authority
    /\ before[key] # 0
    /\ AccountOf(key).delegate = None
    /\ AccountOf(key).close_authority = None

\* An account that receives tokens: a token account the authority does not own.
AdmissibleOutput(key, authority) ==
    AccountOf(key).kind = "account" /\ AccountOf(key).owner # authority

\* The pool mint Initialize accepts: nothing issued, no freeze authority, and
\* the authority as its mint authority.
AdmissiblePoolMint(key, authority) ==
    /\ AccountOf(key).kind = "mint"
    /\ before[key] = 0
    /\ AccountOf(key).freeze_authority = None
    /\ AccountOf(key).mint_authority = authority

InitializeAdmissible ==
    /\ Acct(2) = find_program_address(Acct(1), SWAP_PROGRAM).key
    /\ AdmissibleAsset(Acct(3), Acct(2))
    /\ AdmissibleAsset(Acct(4), Acct(2))
    /\ AdmissibleOutput(Acct(8), Acct(2))
    /\ AdmissibleOutput(Acct(6), Acct(2))
    /\ AdmissibleOutput(Acct(7), Acct(2))
    /\ AdmissiblePoolMint(Acct(5), Acct(2))

\* C18: Initialize succeeds only if the authority is the one derived from the
\* swap account, both asset accounts are owned by it, hold tokens and have
\* neither delegate nor close authority, the destination and the two fee
\* accounts are not owned by it, and the pool mint has supply zero, no freeze
\* authority and the authority as mint authority.  An Initialize that breaks
\* one of these is rejected by the processor before any mint is issued, and
\* leaves the ledger and the swap account as they were.
C18_InitializeAdmission ==
    LastIs("Initialize")
    => /\ Succeeded => InitializeAdmissible
       /\ ~InitializeAdmissible
          => /\ ~Succeeded
             /\ RejectedByProcessor
             /\ Issued = <<>>
             /\ balance = before
             /\ (Acct(1) \in SwapInfos /\ created[Acct(1)] = <<>>)
                   => ~HoldsPool(swap_data[Acct(1)])

C18_Witness ==
    /\ LastIs("Initialize")
    /\ Acct(3) = DELEGATED_A
    /\ ~InitializeAdmissible
    /\ outcome.result = "InvalidDelegate"
    /\ Issued = <<>>

\* The record a swap account holds, once Initialize has written one.
RecordOf(k) == SwapState_unpack(swap_data[k]).val

\* C19: in every initialized record the two asset mints differ, and each fee
\* account is a token account of the mint of its side.
C19_RecordMints ==
    \A k \in SwapInfos :
       HoldsPool(swap_data[k])
       => LET record == RecordOf(k) IN
          /\ record.token_a_mint # record.token_b_mint
          /\ AccountOf(record.token_a_fee_account).mint = record.token_a_mint
          /\ AccountOf(record.token_b_fee_account).mint = record.token_b_mint

C19_Witness ==
    /\ HoldsPool(swap_data[10])
    /\ RecordOf(10).token_a_mint = MINT_A
    /\ RecordOf(10).token_b_mint = MINT_B
    /\ RecordOf(10).token_a_fee_account = fee_a_of(10)
    /\ LastIs("Swap") /\ Succeeded

\* C20: the fee schedule of every initialized record has a numerator below
\* its denominator whenever the denominator is not zero, and a denominator
\* above three times the numerator, the product taken over the integers.
C20_StoredFeesUnderOneThird ==
    \A k \in SwapInfos :
       HoldsPool(swap_data[k])
       => /\ RecordOf(k).fees.trade_fee_denominator # 0
             => RecordOf(k).fees.trade_fee_numerator
                   < RecordOf(k).fees.trade_fee_denominator
          /\ RecordOf(k).fees.trade_fee_denominator
                > 3 * RecordOf(k).fees.trade_fee_numerator

\* The function applied, and its input.
Called(fn) == call.fn = fn
Max(a, b) == IF a > b THEN a ELSE b

\* C21: Fees::validate accepts a schedule exactly when it is (0, 0) or its
\* numerator is below its denominator, and rejects every other schedule with
\* InvalidFee.
C21_FeesValidate ==
    Called("Fees::validate")
    => IF \/ call.input = Fees(0, 0)
          \/ call.input.trade_fee_numerator < call.input.trade_fee_denominator
       THEN call.output.ok
       ELSE call.output = Err("InvalidFee")

C21_Witness ==
    /\ Called("Fees::validate")
    /\ call.input = Fees(0, 0)
    /\ call.output.ok

\* C22: validate_fees accepts a schedule exactly when its denominator is above
\* three times its numerator, and rejects every other schedule with
\* InvalidFee.
C22_ValidateFeesIff ==
    Called("validate_fees")
    => IF call.input.trade_fee_denominator > 3 * call.input.trade_fee_numerator
       THEN call.output.ok
       ELSE call.output = Err("InvalidFee")

\* C23: calculate_fee is 0 when the numerator or the amount is 0, whatever
\* the denominator; otherwise, for a denominator other than 0, it is the
\* larger of 1 and floor(amount * numerator / denominator), and the product
\* of a 64-bit amount and a 64-bit numerator never overflows.
C23_CalculateFee ==
    Called("calculate_fee")
    => LET token_amount == call.input[1]
           fee_numerator == call.input[2]
           fee_denominator == call.input[3]
       IN  IF fee_numerator = 0 \/ token_amount = 0
           THEN call.output = Ok(0)
           ELSE fee_denominator # 0
                => call.output =
                      Ok(Max(1, (token_amount * fee_numerator)
                                   \div fee_denominator))

C23_Witness ==
    /\ Called("calculate_fee")
    /\ call.input = <<50, 1, 100>>
    /\ call.output = Ok(1)

\* The bytes the fields of a variant take: 16 for Initialize, 24 for
\* DepositTokens and WithdrawTokens, 16 for Swap.
PayloadOf(tag) == IF tag \in {1, 2} THEN 24 ELSE 16

\* C24: decoding an instruction fails with InvalidInstruction exactly when the
\* buffer is empty, the tag is not one of 0..3, or fewer bytes follow the tag
\* than the fields of the variant take; every other buffer decodes.
C24_DecodeFailsExactlyWhenShort ==
    Called("SwapInstruction::unpack")
    => IF \/ call.input = <<>>
          \/ Head(call.input) \notin 0..3
          \/ Len(call.input) - 1 < PayloadOf(Head(call.input))
       THEN call.output = Err("InvalidInstruction")
       ELSE call.output.ok

\* The 8 bytes of a u64 of at most 16 bits, least significant byte first.
Field(v) == <<v % 256, (v \div 256) % 256, 0, 0, 0, 0, 0, 0>>

\* The tag and the fields of an instruction, in declaration order.
WireOf(i) ==
    IF i.variant = "Initialize"
    THEN <<0>> \o Field(i.fees.trade_fee_numerator)
             \o Field(i.fees.trade_fee_denominator)
    ELSE IF i.variant = "DepositTokens"
    THEN <<1>> \o Field(i.pool_token_amount)
             \o Field(i.maximum_token_a_amount)
             \o Field(i.maximum_token_b_amount)
    ELSE IF i.variant = "WithdrawTokens"
    THEN <<2>> \o Field(i.pool_token_amount)
             \o Field(i.minimum_token_a_amount)
             \o Field(i.minimum_token_b_amount)
    ELSE <<3>> \o Field(i.amount_in) \o Field(i.minimum_amount_out)

\* C25: an instruction is encoded as its tag byte (0 Initialize, 1
\* DepositTokens, 2 WithdrawTokens, 3 Swap) followed by its fields as 8-byte
\* little-endian integers in declaration order, with nothing between them,
\* and decoding the encoding gives the instruction back.
C25_InstructionRoundTrip ==
    Called("SwapInstruction::pack")
    => /\ call.output = WireOf(call.input)
       /\ SwapInstruction_unpack(call.output) = Ok(call.input)

C25_Witness ==
    /\ Called("SwapInstruction::pack")
    /\ call.input = WithdrawTokens_of(256, 1000, 0)
    /\ Len(call.output) = 25
    /\ call.output[3] = 1
    /\ call.output[10] = 232

\* The 32 bytes of a key, and the 274 bytes of a pool record in field order.
KeyBytes(k) == [i \in 1..32 |-> k]
FeeWire(fees) ==
    Field(fees.trade_fee_numerator) \o Field(fees.trade_fee_denominator)
RecordWire(v) ==
    << IF v.is_initialized THEN 1 ELSE 0, v.bump_seed >>
        \o KeyBytes(v.token_program_id) \o KeyBytes(v.token_a)
        \o KeyBytes(v.token_b) \o KeyBytes(v.pool_mint)
        \o KeyBytes(v.token_a_mint) \o KeyBytes(v.token_b_mint)
        \o KeyBytes(v.token_a_fee_account) \o KeyBytes(v.token_b_fee_account)
        \o FeeWire(v.fees)

C27_UncheckedUnpack ==
    Called("SwapState::unpack")
    => /\ call.output.unchecked.ok
             <=> (Len(call.input) = 274 /\ call.input[1] \in {0, 1})
       /\ (Len(call.input) = 274 /\ call.input[1] = 0)
          => /\ call.output.checked = Err("UninitializedAccount")
             /\ ~call.output.unchecked.val.is_initialized
             /\ RecordWire(call.output.unchecked.val) = call.input

C27_Witness ==
    /\ Called("SwapState::unpack")
    /\ Len(call.input) = 274
    /\ call.input[1] = 0
    /\ call.input[2] = 255
    /\ call.output.checked = Err("UninitializedAccount")
    /\ call.output.unchecked.val.fees = Fees(1, 4)

\* C28: a successful swap does not decrease the product of the two pool
\* balances, the source balance counted with the net input only: with x and
\* y the balances before it, (x + net input) * (y - amount out) >= x * y.
C28_ProductNonDecreasing ==
    (LastIs("Swap") /\ Succeeded)
    => (before[Acct(5)] + Issued[1].amount)
          * (before[Acct(6)] - Issued[2].amount)
       >= before[Acct(5)] * before[Acct(6)]

\* C29: no operation divides by zero, whatever sequence of Initialize,
\* DepositTokens, WithdrawTokens and Swap precedes it.
C29_NoDivisionByZero ==
    outcome.result # "DivideByZero"

FreshInitialize ==
    /\ LastIs("Initialize")
    /\ request.accounts = InitializeAccounts(10)
    /\ InitializeAdmissible
    /\ created[10] = <<>> \/ Succeeded

C31_FeeBetweenOneAndAmountIn ==
    (/\ LastIs("Swap")
     /\ Succeeded
     /\ PoolFees.trade_fee_numerator > 0
     /\ Arg(1) > 0)
    => /\ trading_fee(PoolFees, Arg(1)).ok
       /\ Shape(Issued[3]) = Transfer(Acct(4), Acct(8), Acct(3), Issued[3].amount)
       /\ Issued[3].amount >= 1
       /\ Issued[3].amount <= Arg(1)
       /\ Issued[3].amount = trading_fee(PoolFees, Arg(1)).val
       /\ Issued[1].amount = Arg(1) - Issued[3].amount
       /\ Acct(8) # Acct(4)
             => balance[Acct(8)] = before[Acct(8)] + Issued[3].amount

C31_Witness ==
    /\ LastIs("Swap")
    /\ Succeeded
    /\ PoolFees.trade_fee_numerator > 0
    /\ Arg(1) > 0
    /\ (Arg(1) * PoolFees.trade_fee_numerator)
          \div PoolFees.trade_fee_denominator = 0
    /\ Issued[3].amount = 1
    /\ balance[Acct(8)] = before[Acct(8)] + 1

\* The token accounts and mints whose amounts the last invocation changed.
Changed == { key \in DOMAIN balance : balance[key] # before[key] }

\* C32: a DepositTokens or WithdrawTokens whose authority is not the pool's
\* derived authority, whose token-A account, token-B account, pool mint or
\* token program is not the recorded one, or whose caller passes the pool's
\* own token-A or token-B account as its own, is rejected with no instruction
\* issued; a successful deposit transfers into the recorded asset accounts
\* and mints on the recorded pool mint, a successful withdrawal burns on the
\* recorded pool mint and transfers out of the recorded asset accounts, and
\* no other account changes.
C32_DepositWithdrawAccountChecks ==
    /\ LastIs("DepositTokens") =>
          /\ ~DepositAccountsValid => (~Succeeded /\ Issued = <<>>)
          /\ Succeeded =>
                LET pool == created[Acct(1)][1] IN
                /\ Issued[1].destination = pool.token_a
                /\ Issued[2].destination = pool.token_b
                /\ Issued[3].mint = pool.pool_mint
                /\ {Issued[1].source, Issued[2].source}
                      \cap {pool.token_a, pool.token_b} = {}
                /\ Changed \subseteq {Acct(4), Acct(5), pool.token_a,
                                      pool.token_b, pool.pool_mint, Acct(9)}
    /\ LastIs("WithdrawTokens") =>
          /\ ~WithdrawAccountsValid => (~Succeeded /\ Issued = <<>>)
          /\ Succeeded =>
                LET pool == created[Acct(1)][1] IN
                /\ Issued[1].mint = pool.pool_mint
                /\ \A i \in 2..Len(Issued) :
                      /\ Issued[i].source \in {pool.token_a, pool.token_b}
                      /\ Issued[i].destination \notin {pool.token_a, pool.token_b}
                /\ Changed \subseteq {Acct(5), pool.pool_mint, pool.token_a,
                                      pool.token_b, Acct(8), Acct(9)}

\* A deposit that names the pool's own token-A account as the caller's was
\* rejected, after a deposit into the same pool had succeeded.
C32_Witness ==
    /\ LastIs("DepositTokens")
    /\ Acct(1) \in SwapInfos
    /\ created[Acct(1)] # <<>>
    /\ Acct(4) = created[Acct(1)][1].token_a
    /\ Acct(6) = created[Acct(1)][1].token_a
    /\ outcome.result = "InvalidInput"
    /\ Issued = <<>>
    /\ balance[created[Acct(1)][1].pool_mint] > INITIAL_SWAP_POOL_AMOUNT

\* C33: a DepositTokens, WithdrawTokens or Swap addressed to an account that
\* holds no initialized record (bytes of another length, an init byte of 0,
\* or an init byte that is neither 0 nor 1) does not succeed: the processor
\* rejects it with UninitializedAccount or InvalidAccountData (a swap
\* addressed to an account of another program with IncorrectProgramId),
\* issues no instruction and changes no balance.
C33_NoRecordNoCommand ==
    (/\ request.op \in {"DepositTokens", "WithdrawTokens", "Swap"}
     /\ ~HoldsPool(DataOf(swap_data, Acct(1))))
    => /\ ~Succeeded
       /\ RejectedByProcessor
       /\ Issued = <<>>
       /\ Changed = {}
       /\ outcome.result =
             IF LastIs("Swap") /\ Account(Acct(1)).program # SWAP_PROGRAM
                THEN "IncorrectProgramId"
             ELSE IF Len(DataOf(swap_data, Acct(1))) = SWAP_STATE_LEN
                     /\ DataOf(swap_data, Acct(1))[1] = 0
                THEN "UninitializedAccount"
             ELSE "InvalidAccountData"

\* A swap with the right account list was addressed to an all-zero swap
\* account and rejected.
C33_Witness ==
    /\ LastIs("Swap")
    /\ request.accounts \in SwapAccounts(10)
    /\ swap_data[10] = Zeroed(SWAP_STATE_LEN)
    /\ outcome.result = "UninitializedAccount"
    /\ Issued = <<>>

\* The accounts linked to pool k, what an observer of pool k sees of it, and
\* the token accounts and mints whose amounts belong to pool k or its caller.
Linked(k) ==
    { k, authority_of(k), token_a_of(k), token_b_of(k), pool_mint_of(k),
      fee_a_of(k), fee_b_of(k), pool_dest_of(k) }
PoolState(k) ==
    << swap_data[k], balance[token_a_of(k)], balance[token_b_of(k)],
       balance[pool_mint_of(k)] >>
OwnKeys(k) ==
    (Linked(k) \cup {CallerOf(k)[1], CallerOf(k)[2]}) \cap DOMAIN balance

\* The accounts of an instruction that the caller supplies as its own.
CallerSide(req) ==
    IF req.op = "DepositTokens"
        THEN {req.accounts[4], req.accounts[5], req.accounts[9]}
    ELSE IF req.op = "WithdrawTokens"
        THEN {req.accounts[5], req.accounts[8], req.accounts[9]}
    ELSE IF req.op = "Swap" THEN {req.accounts[4], req.accounts[7]}
    ELSE {}

\* The state with everything that does not belong to pool k or its caller
\* blanked: pool k as if it were operated alone.
AloneBalance(k) ==
    [key \in DOMAIN balance |-> IF key \in OwnKeys(k) THEN balance[key] ELSE 0]
AloneData(k) ==
    [j \in SwapInfos |-> IF j = k THEN swap_data[j] ELSE Zeroed(SWAP_STATE_LEN)]

\* An outcome with everything that does not belong to pool k or its caller
\* blanked.
AloneOutcome(k, out) ==
    [out EXCEPT
        !.balance = [key \in DOMAIN @ |-> IF key \in OwnKeys(k) THEN @[key] ELSE 0],
        !.swap_data = [j \in DOMAIN @ |->
                          IF j = k THEN @[j] ELSE Zeroed(SWAP_STATE_LEN)]]

\* An operation of pool k with its caller's accounts has the same result,
\* issues the same instructions and leaves pool k and its caller the same
\* amounts and record, whatever state the other pool is in.
InitializeLocal(k) ==
    \A in \in PoolInitializeInputsOf(k) :
       AloneOutcome(k, process_initialize(SWAP_PROGRAM,
                                          Fees(in.args[1], in.args[2]),
                                          in.accounts, TRUE, balance, swap_data))
          = process_initialize(SWAP_PROGRAM, Fees(in.args[1], in.args[2]),
                               in.accounts, TRUE, AloneBalance(k), AloneData(k))
DepositLocal(k) ==
    \A in \in PoolDepositInputsOf(k) :
       in.accounts = PoolDepositAccounts(k) =>
          AloneOutcome(k, process_deposit_tokens(SWAP_PROGRAM, in.args[1],
                                                 in.args[2], in.args[3],
                                                 in.accounts, balance,
                                                 swap_data))
             = process_deposit_tokens(SWAP_PROGRAM, in.args[1], in.args[2],
                                      in.args[3], in.accounts, AloneBalance(k),
                                      AloneData(k))
WithdrawLocal(k) ==
    \A in \in PoolWithdrawInputsOf(k) :
       in.accounts = PoolWithdrawAccounts(k) =>
          AloneOutcome(k, process_withdraw_tokens(SWAP_PROGRAM, in.args[1],
                                                  in.args[2], in.args[3],
                                                  in.accounts, balance,
                                                  swap_data))
             = process_withdraw_tokens(SWAP_PROGRAM, in.args[1], in.args[2],
                                       in.args[3], in.accounts, AloneBalance(k),
                                       AloneData(k))
SwapLocal(k) ==
    \A in \in PoolSwapInputsOf(k) :
       in.accounts \in PoolSwapAccounts(k) =>
          AloneOutcome(k, process_swap(SWAP_PROGRAM, in.args[1], in.args[2],
                                       in.accounts, TRUE, balance, swap_data))
             = process_swap(SWAP_PROGRAM, in.args[1], in.args[2], in.accounts,
                            TRUE, AloneBalance(k), AloneData(k))

\* C34 as stated: an operation addressed to one pool leaves the record, the
\* asset balances and the pool-token supply of the other pool unchanged.
C34_OtherPoolUnchanged ==
    [][\A k \in SwapInfos :
          request'.accounts[1] = OtherPool(k) => PoolState(k)' = PoolState(k)]_vars

\* C34, amended: an operation addressed to one pool never changes the record
\* or the pool-token supply of the other pool and never lowers its asset
\* balances; it leaves every amount of the other pool and of the other
\* pool's caller unchanged unless the caller supplies, as an account of its
\* own, an account linked to the other pool; and the result and the effect
\* of an operation on its own pool and caller do not depend on the state of
\* the other pool, so that every interleaving leaves each pool what its own
\* operations alone leave it (checked in the committed states: a rejected
\* invocation leaves the state it started from).
C34_PoolsIndependent ==
    /\ [][\A k \in SwapInfos :
             request'.accounts[1] = OtherPool(k) =>
                /\ swap_data'[k] = swap_data[k]
                /\ balance'[pool_mint_of(k)] = balance[pool_mint_of(k)]
                /\ balance'[token_a_of(k)] >= balance[token_a_of(k)]
                /\ balance'[token_b_of(k)] >= balance[token_b_of(k)]
                /\ CallerSide(request') \cap Linked(k) = {} =>
                      \A key \in OwnKeys(k) : balance'[key] = balance[key]]_vars
    /\ [](outcome.result = "Ok" =>
             \A k \in SwapInfos :
                /\ InitializeLocal(k)
                /\ DepositLocal(k)
                /\ WithdrawLocal(k)
                /\ SwapLocal(k))

\* Both pools were created and operated: a swap of pool 10 succeeded after a
\* deposit into pool 20 had succeeded.
C34_Witness ==
    /\ LastIs("Swap")
    /\ Succeeded
    /\ Acct(1) = 10
    /\ created[20] # <<>>
    /\ balance[pool_mint_of(20)] > INITIAL_SWAP_POOL_AMOUNT
    /\ CallerSide(request) \cap Linked(20) = {}

\* The tokens of one mint held by all token accounts together.
RECURSIVE SumOver(_, _)
SumOver(keys, amounts) ==
    IF keys = {} THEN 0
    ELSE LET key == CHOOSE x \in keys : TRUE
         IN  amounts[key] + SumOver(keys \ {key}, amounts)
HoldersOf(mint) == { key \in TokenKeys : AccountOf(key).mint = mint }
TotalOf(mint, amounts) == SumOver(HoldersOf(mint), amounts)

\* C35: a successful DepositTokens, WithdrawTokens or Swap leaves the total
\* of token A and the total of token B over all token accounts unchanged; a
\* successful swap transfers the amount in, as net input plus fee, out of the
\* caller's source account, which loses exactly that (less the fee when it is
\* the fee account itself), and the pool's destination account loses exactly
\* what the caller's destination account gains.
C35_AssetsConserved ==
    /\ (request.op \in {"DepositTokens", "WithdrawTokens", "Swap"} /\ Succeeded)
          => /\ TotalOf(MINT_A, balance) = TotalOf(MINT_A, before)
             /\ TotalOf(MINT_B, balance) = TotalOf(MINT_B, before)
    /\ (LastIs("Swap") /\ Succeeded)
          => /\ Issued[1].source = Acct(4)
             /\ Issued[3].source = Acct(4)
             /\ Issued[1].amount + Issued[3].amount = Arg(1)
             /\ before[Acct(4)] - balance[Acct(4)] =
                   IF Acct(8) = Acct(4) THEN Issued[1].amount ELSE Arg(1)
             /\ balance[Acct(5)] - before[Acct(5)] = Issued[1].amount
             /\ before[Acct(6)] - balance[Acct(6)] = Issued[2].amount
             /\ balance[Acct(7)] - before[Acct(7)] = Issued[2].amount

\* A swap that charged a fee and paid the caller has succeeded.
C35_Witness ==
    /\ LastIs("Swap")
    /\ Succeeded
    /\ Issued[3].amount > 0
    /\ Issued[2].amount > 0
    /\ Acct(8) # Acct(4)
    /\ before[Acct(4)] - balance[Acct(4)] = Arg(1)
    /\ TotalOf(MINT_A, balance) = TotalOf(MINT_A, before)

\* A successful deposit is followed at once by a successful withdrawal of the
\* same pool token amount from the same pool, by the same caller.
RoundTrip ==
    /\ request.op = "DepositTokens"
    /\ outcome.result = "Ok"
    /\ request'.op = "WithdrawTokens"
    /\ outcome'.result = "Ok"
    /\ request'.args[1] = request.args[1]
    /\ request'.accounts[1] = request.accounts[1]
    /\ request'.accounts[5] = request.accounts[9]
    /\ request'.accounts[8] = request.accounts[4]
    /\ request'.accounts[9] = request.accounts[5]

\* What the deposit took and what the withdrawal pays, on each side.
RoundTripNotProfitable ==
    /\ balance[request.accounts[6]] - balance'[request.accounts[6]]
          <= balance[request.accounts[6]] - before[request.accounts[6]]
    /\ balance[request.accounts[7]] - balance'[request.accounts[7]]
          <= balance[request.accounts[7]] - before[request.accounts[7]]

\* C36 as stated: the withdrawal of a round trip pays, on each side, at most
\* what the deposit took.
C36_RoundTripNeverProfitable ==
    [][RoundTrip => RoundTripNotProfitable]_vars

\* C36, amended: the withdrawal of a round trip pays, on each side, at most
\* what the deposit took when the pool mint had a supply above 0 before the
\* deposit; a deposit into a pool without supply mints the initial amount
\* whatever amount was asked, and the withdrawal of that amount pays the
\* whole of both asset accounts, the tokens found there included.
C36_RoundTripWithSupply ==
    [][RoundTrip =>
          /\ before[request.accounts[8]] > 0 => RoundTripNotProfitable
          /\ (before[request.accounts[8]] = 0
                 /\ request.args[1] = INITIAL_SWAP_POOL_AMOUNT)
                => /\ balance'[request.accounts[6]] = 0
                   /\ balance'[request.accounts[7]] = 0
                   /\ ~RoundTripNotProfitable]_vars

\* The withdrawal of one pool token has succeeded right after the deposit for
\* one pool token, the first operations of the pool.
C36_Witness ==
    /\ LastIs("WithdrawTokens")
    /\ Succeeded
    /\ nops = 3
    /\ Acct(1) = 10
    /\ created[20] = <<>>
    /\ Arg(1) = 1
    /\ before[pool_mint_of(10)] = INITIAL_SWAP_POOL_AMOUNT + 1
    /\ balance[pool_mint_of(10)] = INITIAL_SWAP_POOL_AMOUNT

\* C37: after a successful deposit into a pool whose mint has a supply S above
\* 0, with balances A, B before and A', B', S' after, A' * S >= A * S' and
\* B' * S >= B * S'.
C37_DepositNeverDilutes ==
    (LastIs("DepositTokens") /\ Succeeded /\ DepositSupply > 0)
    => /\ balance[Acct(6)] * DepositSupply >= before[Acct(6)] * balance[Acct(8)]
       /\ balance[Acct(7)] * DepositSupply >= before[Acct(7)] * balance[Acct(8)]

====
